---- MODULE Spec2Model ----
(***************************************************************************)
(* Voice-Calender: the OpenAI session lifecycle of                          *)
(* process_with_openai_assistant (agent_parse_entry_for_calender.py) and    *)
(* the orchestrator cycle run_pipeline (app_calender_scheduler.py).         *)
(*                                                                          *)
(* Every remote call of process_with_openai_assistant is one step: the      *)
(* step takes the remote's answer (drawn nondeterministically) and runs the *)
(* local code up to the next remote call, file writes included.             *)
(***************************************************************************)
EXTENDS Integers, Sequences, FiniteSets, TLC

\* ---------------------------------------------------------------- bounds
MaxCycles == 2       \* cycles of the main loop
MaxEvents == 1       \* events one insertion stage counts as created, or as failed
MaxCalls == 2        \* top-level calls of process_with_openai_assistant
MaxRestarts == 2     \* recursive restarts the model follows in one top-level call
MaxAssistants == 2   \* assistant ids the remote hands out
MaxThreads == 2      \* thread ids the remote hands out
MaxMsgs == 3         \* messages a remote thread holds
MaxTime == 2         \* clock ticks
MaxRetention == 0    \* largest configured thread_retention_days
TicksPerDay == 2     \* clock ticks in one day (timedelta.days is a floor)
MaxFileCycles == 2   \* cycles of the parse, insertion and deletion stages over the files
MaxTranscripts == 2  \* transcript files in the transcription directory
MaxListLen == 2      \* events in one event file
MaxStamp == 2        \* seconds of the file-name clock (calendar_event_<timestamp>.json)
MaxTextLen == 1      \* characters of a transcript
MaxTokens == 6       \* tokens of a response text given to extract_json_from_text
MaxDay == 1          \* days an event may start on
MaxDuration == 2     \* largest configured default_event_duration_hours
MaxAttendees == 2    \* elements of event['attendees']
MaxPools == 3        \* connection pools constructed in all
MaxOps == 2          \* store operations one task of a loop starts
MaxTasks == 2        \* tasks one loop starts

\* ---------------------------------------------------------------- values
NoId == 0            \* config.get('assistant_id', None) / config.get('thread_id', None)
NoTime == -1         \* 'thread_created_at' not in config
NoCount == -1        \* 'events_created' / 'events_failed' not in state
SecondsPerDay == 86400   \* int(86400 / runs_per_day)
HoursPerDay == 24    \* new_hour = (hour + default_event_duration_hours) % 24
NoDate == 0          \* 'date' not in the dict

NonTerminal == {"queued", "in_progress"}
RunStatuses == NonTerminal \cup {"completed", "failed", "cancelled", "expired"}

VARIABLES
    \* --- persisted and remote state
    config,          \* openai_config['openai_config'] as dumped to OPENAI_CONFIG_PATH
    now,             \* datetime.now(), in ticks
    threads,         \* remote threads: id -> [created, msgs]; msgs oldest first, each
                     \* with its role and whether this call or an earlier one added it
    nextAssistant,   \* next assistant id the remote hands out
    nextThread,      \* next thread id the remote hands out
    remote_run,      \* status of the run on the remote side
    \* --- one call of process_with_openai_assistant
    pc,              \* the remote call the function is about to make
    calls,           \* top-level calls started so far
    restarts,        \* recursive restarts inside the current top-level call
    assistant_id,    \* local variable assistant_id
    thread_id,       \* local variable thread_id
    run_status,      \* run_status.status as last retrieved
    result,          \* the message returned, or NoMsg
    \* --- history of the current call, read by the properties only
    config0,         \* config when the top-level call started
    stale0,          \* the stored thread was past retention when the call started
    createdA,        \* assistants created in this top-level call
    createdT,        \* threads created in this top-level call
    threadPath,      \* how the thread stage decided, last time it ran
    prevRun,         \* how the previous top-level call ended
    \* --- the orchestrator: run_pipeline
    ppc,             \* the stage run_pipeline is about to call
    cycle,           \* cycles started so far
    state,           \* the local dict state of run_pipeline
    stateFile,       \* STATE_FILE on disk
    counts,          \* (success_count, error_count) of process_calendar_event_files
    cycleStart,      \* datetime.now() at the start of the current cycle
    cycleFailure,    \* the failure the current cycle met, "none" if none
    stagesRun,       \* the stages the current cycle has called
    \* --- the orchestrator: main
    runs_per_day,    \* config["scheduler"]["runs_per_day"]
    interval,        \* calculate_interval_seconds(runs_per_day)
    sleeps,          \* calls of time.sleep(interval) so far
    \* --- the files the parse, insertion and deletion stages work on
    fpc,             \* the stage at work: "idle", "parse", "insert" or "delete"
    fcycle,          \* cycles started so far
    stamp,           \* datetime.now() to the second, as save_json_output formats it
    transcripts,     \* the *.txt files in the transcription directory
    todoT,           \* transcription_files still to be processed by the parse stage
    jsonDir,         \* json_output_directory: file name -> content, or NoFile
    todoJ,           \* json_files still to be processed by the insertion stage
    archived,        \* the names this run of the insertion stage moved to the archive
    calendar,        \* the calendar service: event -> entries created for it
    store,           \* the calendar_events table: event -> rows written for it
    icfg,            \* the calendar settings of the scheduler config file
    success_count,   \* success_count of process_calendar_event_files
    error_count,     \* error_count of process_calendar_event_files
    parse_count,     \* success_count of parse_calendar_entries
    cur,             \* json_file, the event file being processed, 0 if none
    idx,             \* the index of the next event of json_file
    file_success_count,  \* file_success_count of the loop over json_files
    \* --- history of the file stages, read by the properties only
    lastArchive,     \* how the archive step of the last event file went
    lastT,           \* what the parse stage did with the last transcript
    insertCalls,     \* calls of calendar_manager.insert_event in this stage
    failedNames,     \* event files of this cycle with an event that failed
    parseFailures,   \* transcripts of this cycle whose processing failed
    \* --- extract_json_from_text
    tpc,             \* "input" before the call, "done" after it, "saved" when
                     \* save_json_output has returned
    json_data,       \* the text given to extract_json_from_text
    extracted,       \* what extract_json_from_text returned
    written          \* save_json_output wrote the event file and returned it

sessVars == <<config, now, threads, nextAssistant, nextThread, remote_run,
              pc, calls, restarts, assistant_id, thread_id, run_status,
              result, config0, stale0, createdA, createdT, threadPath, prevRun>>

pipeVars == <<ppc, cycle, state, stateFile, counts, cycleStart, cycleFailure, stagesRun>>

mainVars == <<runs_per_day, interval, sleeps>>

fileVars == <<fpc, fcycle, stamp, transcripts, todoT, jsonDir, todoJ, archived,
              calendar, store, icfg, success_count, error_count, parse_count, lastT,
              lastArchive, cur, idx, file_success_count, insertCalls, failedNames,
              parseFailures>>

textVars == <<tpc, json_data, extracted, written>>

VARIABLES
    \* --- the normalisation of one event before insert_event
    npc,             \* "input" before the step, then what was applied
    event_data,      \* the event as read from the event file
    scheduler_config,    \* file_processing and event_validation of the config file
    normalized,      \* the event as passed on, and how the step ended
    \* --- the attendees of one event
    attendees,       \* event['attendees']
    passes           \* times the attendee loop has run over the list

normVars == <<npc, event_data, scheduler_config, normalized, attendees, passes>>

VARIABLES
    \* --- the connection pool of db_manager and the two loops that use it
    connection_pool, \* the global connection_pool: a pool, or 0 for None
    pools,           \* every pool made so far: whether closeall() ran on it, and
                     \* the loops whose connection is checked out of it
    pools_created,   \* SimpleConnectionPool objects constructed so far
    lpc,             \* per loop: where it stands in its task
    held,            \* per loop: the pool its connection came from, 0 if it has none
    op,              \* per loop: the store operation it is in
    lastExit,        \* per loop: how its last operation left its try block
    lost,            \* per loop: its last connection was not put back
    tasks,           \* per loop: tasks started so far
    nops             \* per loop: operations started in the current task

poolVars == <<connection_pool, pools, pools_created, lpc, held, op, lastExit, lost, tasks, nops>>

VARIABLES
    \* --- one event saved to the calendar_events table and queried back
    rpc,             \* "input", then "saved", then "queried"
    saver,           \* the function that hands the event to save_calendar_event
    table,           \* the rows of calendar_events
    date_range,      \* start_date and end_date of the query
    results          \* what get_events_by_date_range returned

roundVars == <<rpc, saver, table, date_range, results>>

VARIABLES
    dpc,                 \* where process_deletions stands
    delete_source_files, \* processing.delete_source_files of the file_utils config
    gdrive_config,       \* the Google Drive config on disk
    extensions,          \* extensions of process_deletions
    audio_files_dir,     \* the suffixes of the files in the audio directory
    unlinked             \* the files of the audio directory process_deletions unlinked

delVars == <<dpc, delete_source_files, gdrive_config, extensions, audio_files_dir, unlinked>>

VARIABLES
    spc,                 \* where future_tasks_scheduler stands
    clock,               \* datetime.now(), in seconds since midnight
    daily_task_hour,     \* scheduler.daily_task_hour of the config
    daily_task_minute,   \* scheduler.daily_task_minute of the config
    sleep_time,          \* sleep_time of future_tasks_scheduler
    last_outcome         \* how the last run_calendar_summary_task went

dayVars == <<spc, clock, daily_task_hour, daily_task_minute, sleep_time, last_outcome>>

vars == <<sessVars, pipeVars, mainVars, fileVars, textVars, normVars, poolVars, roundVars, delVars, dayVars>>

\* what a step of process_with_openai_assistant leaves alone
nonSessVars == <<pipeVars, mainVars, fileVars, textVars, normVars, poolVars, roundVars, delVars, dayVars>>

NoMsg == [role |-> "none", of |-> "none"]

\* ------------------------------------------------------------ pure helpers

\* (datetime.now() - thread_created_at).days
DaysSince(created) == (now - created) \div TicksPerDay

NeedsRotationLenient(days, retention) == days > retention + 1
NeedsRotationEager(days, retention) == days >= retention
\* days_since_creation > retention_days
NeedsRotation(days, retention) == days > retention

IsTerminalNoExpired(status) == status \in {"completed", "failed", "cancelled"}
\* the negation of the while condition of the polling loop
IsTerminal(status) == status \in {"completed", "failed", "cancelled", "expired"}

ClearAssistantAndThread(cfg) ==
    [cfg EXCEPT !.assistant_id = NoId, !.thread_id = NoId, !.thread_created_at = NoTime]
\* config.pop('assistant_id', None)
ClearAssistant(cfg) == [cfg EXCEPT !.assistant_id = NoId]

ClearThreadKeepTime(cfg) == [cfg EXCEPT !.thread_id = NoId]
\* config.pop('thread_id', None); config.pop('thread_created_at', None)
ClearThread(cfg) == [cfg EXCEPT !.thread_id = NoId, !.thread_created_at = NoTime]

OnErrorForgetThread(cfg) == [cfg EXCEPT !.thread_id = NoId, !.thread_created_at = NoTime]
\* the except clauses that log and raise ValueError: no write to the config
OnError(cfg) == cfg

RunFailedOnlyFailed(status) == status = "failed"
\* if run_status.status != "completed": raise ValueError
RunFailed(status) == status # "completed"

\* if not assistant_id: create ... else: retrieve
EnterPc(cfg) == IF cfg.assistant_id = NoId THEN "create_assistant" ELSE "retrieve_assistant"

\* thread_id = config.get('thread_id'); if thread_id: retrieve, else create
ThreadStagePc(cfg) == IF cfg.thread_id = NoId THEN "create_thread" ELSE "retrieve_thread"

\* messages.list returns newest first; the loop returns the first assistant message
RECURSIVE LatestAssistant(_)
LatestAssistant(msgs) ==
    IF msgs = <<>> THEN NoMsg
    ELSE IF msgs[Len(msgs)].role = "assistant" THEN msgs[Len(msgs)]
    ELSE LatestAssistant(SubSeq(msgs, 1, Len(msgs) - 1))

\* what a thread holds of the earlier calls when a new top-level call starts:
\* the function reads no further than the newest assistant message, so only
\* that message is kept
Earlier(msgs) ==
    IF LatestAssistant(msgs) = NoMsg THEN <<>>
    ELSE <<[role |-> "assistant", of |-> "earlier"]>>

\* ------------------------------------------------- run_pipeline: helpers

CalculateIntervalNoZeroCase(r) == SecondsPerDay \div (IF r = 0 THEN 1 ELSE r)
\* return 0 if runs_per_day == 0 else int(86400 / runs_per_day)
CalculateIntervalSeconds(r) == IF r = 0 THEN 0 ELSE SecondsPerDay \div r

\* the values of runs_per_day the model starts main with
RunsPerDayValues == {0, 1, 2, 2 * SecondsPerDay}

NoError == "none"
NoStatus == "none"

\* state = {"last_run_time": datetime.now().isoformat()}
NewState(t) ==
    [last_run_time |-> t, last_run_status |-> NoStatus, events_created |-> NoCount,
     events_failed |-> NoCount, error |-> NoError]

\* state["last_run_status"] = "success"; events_created, events_failed
SuccessState(st, created, failed) ==
    [st EXCEPT !.last_run_status = "success", !.events_created = created,
               !.events_failed = failed]

\* except Exception as e: state["last_run_status"] = "failed"; state["error"] = str(e)
FailedState(st, err) == [st EXCEPT !.last_run_status = "failed", !.error = err]

\* the early "return 0, 0" of process_calendar_event_files and its outer except
InsertStageFailures ==
    {"scheduler_config_missing", "parse_config_missing", "json_dir_missing",
     "auth_failed", "insert_exception"}

\* update_pipeline_state: open(state_file, 'w') truncates, json.dump writes;
\* an exception in either is logged and swallowed
UpdatePipelineState(file, updates, outcome) ==
    CASE outcome = "written" -> [kind |-> "json", content |-> updates]
      [] outcome = "open_failed" -> file
      [] outcome = "dump_failed" -> [kind |-> "truncated", content |-> NewState(NoTime)]

\* ------------------------------------------------------------------ Init

\* The session record a deployment can hold: ids are written and popped by
\* the code together with thread_created_at, but the code itself allows for a
\* record with thread_id and no thread_created_at (line 298).
InitConfigs ==
    { [assistant_id |-> a, thread_id |-> t, thread_created_at |-> c,
       thread_retention_days |-> r] :
        a \in {NoId, 1}, t \in {NoId, 1}, c \in {NoTime, 0}, r \in 0..MaxRetention }

InitSession ==
    /\ config \in {c \in InitConfigs : c.thread_id = NoId => c.thread_created_at = NoTime}
    /\ now = 0
    /\ threads = [t \in 1..MaxThreads |->
                    IF t = 1
                    THEN [created |-> 0, msgs |-> <<[role |-> "assistant", of |-> "earlier"]>>]
                    ELSE [created |-> NoTime, msgs |-> <<>>]]
    /\ nextAssistant = 2
    /\ nextThread = 2
    /\ remote_run = "none"
    /\ pc = "idle"
    /\ calls = 0
    /\ restarts = 0
    /\ assistant_id = NoId
    /\ thread_id = NoId
    /\ run_status = "none"
    /\ result = NoMsg
    /\ config0 = config
    /\ stale0 = FALSE
    /\ createdA = 0
    /\ createdT = 0
    /\ threadPath = "none"
    /\ prevRun = [ok |-> FALSE, a |-> NoId, t |-> NoId]

\* --------------------------------------------------------------- actions

remoteVars == <<threads, nextAssistant, nextThread, remote_run>>
histVars == <<config0, stale0, prevRun>>

\* a top-level call enters the function, some time after the previous one
\* (one call takes no time on the scale of days):
\* assistant_id = config.get('assistant_id')
Begin ==
    /\ pc \in {"idle", "returned", "error"}
    /\ calls < MaxCalls
    /\ \E t \in now..MaxTime :
        /\ now' = t
        /\ stale0' = /\ config.thread_id # NoId
                      /\ (t - threads[config.thread_id].created) \div TicksPerDay
                            > config.thread_retention_days
    /\ calls' = calls + 1
    /\ restarts' = 0
    /\ assistant_id' = config.assistant_id
    /\ thread_id' = NoId
    /\ run_status' = "none"
    /\ result' = NoMsg
    /\ config0' = config
    /\ createdA' = 0
    /\ createdT' = 0
    /\ threadPath' = "none"
    /\ prevRun' = IF pc = "returned"
                  THEN [ok |-> TRUE, a |-> assistant_id, t |-> thread_id]
                  ELSE [ok |-> FALSE, a |-> NoId, t |-> NoId]
    /\ pc' = EnterPc(config)
    /\ remote_run' = "none"
    /\ threads' = [t \in DOMAIN threads |->
                        [threads[t] EXCEPT !.msgs = Earlier(threads[t].msgs)]]
    /\ UNCHANGED <<config, nextAssistant, nextThread>>
    /\ UNCHANGED nonSessVars

\* any exception that reaches the outer except clause: ValueError to the caller
Fail ==
    /\ pc' = "error"
    /\ config' = OnError(config)
    /\ remote_run' = "none"
    /\ UNCHANGED <<now, threads, nextAssistant, nextThread, calls, restarts,
                   assistant_id, thread_id, run_status, result, histVars, createdA,
                   createdT, threadPath>>
    /\ UNCHANGED nonSessVars

\* "No assistant found": pop the id, dump the config, call the function again
Restart ==
    /\ restarts < MaxRestarts
    /\ config' = ClearAssistant(config)
    /\ restarts' = restarts + 1
    /\ assistant_id' = config'.assistant_id
    /\ thread_id' = NoId
    /\ run_status' = "none"
    /\ pc' = EnterPc(config')
    /\ remote_run' = "none"
    /\ threadPath' = "none"
    /\ UNCHANGED <<now, threads, nextAssistant, nextThread, calls, result, config0,
                   stale0, prevRun, createdA, createdT>>
    /\ UNCHANGED nonSessVars

\* client.beta.assistants.create succeeds: store the id, go on to the thread stage
CreateAssistantOk ==
    /\ pc = "create_assistant"
    /\ nextAssistant <= MaxAssistants
    /\ assistant_id' = nextAssistant
    /\ nextAssistant' = nextAssistant + 1
    /\ config' = [config EXCEPT !.assistant_id = nextAssistant]
    /\ createdA' = createdA + 1
    /\ thread_id' = config.thread_id
    /\ pc' = ThreadStagePc(config)
    /\ UNCHANGED <<now, threads, nextThread, remote_run, calls, restarts, run_status,
                   result, histVars, createdT, threadPath>>
    /\ UNCHANGED nonSessVars

CreateAssistantFail ==
    /\ pc = "create_assistant"
    /\ Fail

\* client.beta.assistants.retrieve succeeds
RetrieveAssistantOk ==
    /\ pc = "retrieve_assistant"
    /\ thread_id' = config.thread_id
    /\ pc' = ThreadStagePc(config)
    /\ UNCHANGED <<config, now, remoteVars, calls, restarts, assistant_id, run_status,
                   result, histVars, createdA, createdT, threadPath>>
    /\ UNCHANGED nonSessVars

\* client.beta.assistants.retrieve raises "No assistant found"
RetrieveAssistantNotFound ==
    /\ pc = "retrieve_assistant"
    /\ Restart

\* client.beta.assistants.retrieve raises anything else: re-raised
RetrieveAssistantError ==
    /\ pc = "retrieve_assistant"
    /\ Fail

\* client.beta.threads.retrieve succeeds: the age decides on rotation
RetrieveThreadOk ==
    /\ pc = "retrieve_thread"
    /\ threads[thread_id].created # NoTime
    /\ LET rotate == NeedsRotation(DaysSince(threads[thread_id].created),
                                   config.thread_retention_days)
       IN /\ threadPath' = IF rotate THEN "stale" ELSE "reused"
          /\ pc' = IF rotate THEN "create_thread" ELSE "create_message"
    /\ UNCHANGED <<config, now, remoteVars, calls, restarts, assistant_id, thread_id,
                   run_status, result, histVars, createdA, createdT>>
    /\ UNCHANGED nonSessVars

\* client.beta.threads.retrieve raises "No thread found"
RetrieveThreadNotFound ==
    /\ pc = "retrieve_thread"
    /\ config' = ClearThread(config)
    /\ threadPath' = "notfound"
    /\ pc' = "create_thread"
    /\ UNCHANGED <<now, remoteVars, calls, restarts, assistant_id, thread_id,
                   run_status, result, histVars, createdA, createdT>>
    /\ UNCHANGED nonSessVars

\* client.beta.threads.retrieve raises anything else: "will create new thread"
RetrieveThreadError ==
    /\ pc = "retrieve_thread"
    /\ threadPath' = "error"
    /\ pc' = "create_thread"
    /\ UNCHANGED <<config, now, remoteVars, calls, restarts, assistant_id, thread_id,
                   run_status, result, histVars, createdA, createdT>>
    /\ UNCHANGED nonSessVars

\* client.beta.threads.create succeeds: store the id and the creation time
CreateThreadOk ==
    /\ pc = "create_thread"
    /\ nextThread <= MaxThreads
    /\ thread_id' = nextThread
    /\ nextThread' = nextThread + 1
    /\ threads' = [threads EXCEPT ![nextThread] = [created |-> now, msgs |-> <<>>]]
    /\ config' = [config EXCEPT !.thread_id = nextThread, !.thread_created_at = now]
    /\ createdT' = createdT + 1
    /\ threadPath' = IF threadPath \in {"stale", "notfound", "error"} /\ thread_id # NoId
                     THEN threadPath ELSE "missing"
    /\ pc' = "create_message"
    /\ UNCHANGED <<now, nextAssistant, remote_run, calls, restarts, assistant_id,
                   run_status, result, histVars, createdA>>
    /\ UNCHANGED nonSessVars

CreateThreadFail ==
    /\ pc = "create_thread"
    /\ Fail

\* client.beta.threads.messages.create succeeds: the prompt is appended
CreateMessageOk ==
    /\ pc = "create_message"
    /\ Len(threads[thread_id].msgs) < MaxMsgs
    /\ threads' = [threads EXCEPT ![thread_id].msgs =
                        Append(@, [role |-> "user", of |-> "this"])]
    /\ pc' = "create_run"
    /\ UNCHANGED <<config, now, nextAssistant, nextThread, remote_run, calls, restarts,
                   assistant_id, thread_id, run_status, result, histVars, createdA,
                   createdT, threadPath>>
    /\ UNCHANGED nonSessVars

\* messages.create raises (outside the inner try: never a restart)
CreateMessageFail ==
    /\ pc = "create_message"
    /\ Fail

\* client.beta.threads.runs.create succeeds
CreateRunOk ==
    /\ pc = "create_run"
    /\ remote_run' = "queued"
    /\ pc' = "poll"
    /\ UNCHANGED <<config, now, threads, nextAssistant, nextThread, calls, restarts,
                   assistant_id, thread_id, run_status, result, histVars, createdA,
                   createdT, threadPath>>
    /\ UNCHANGED nonSessVars

\* the remote works on the run; a completed run may have added a reply
RemoteRunAdvance ==
    /\ pc = "poll"
    /\ remote_run \in NonTerminal
    /\ \E s \in RunStatuses \ {remote_run, "queued"}, reply \in BOOLEAN :
        /\ remote_run' = s
        /\ (reply => s = "completed" /\ Len(threads[thread_id].msgs) < MaxMsgs)
        /\ threads' = IF reply
                      THEN [threads EXCEPT ![thread_id].msgs =
                                Append(@, [role |-> "assistant", of |-> "this"])]
                      ELSE threads
    /\ UNCHANGED <<config, now, nextAssistant, nextThread, pc, calls, restarts,
                   assistant_id, thread_id, run_status, result, histVars,
                   createdA, createdT, threadPath>>
    /\ UNCHANGED nonSessVars

\* runs.retrieve answers with a status: the while loop and the check after it
PollStatus ==
    /\ pc = "poll"
    /\ run_status' = remote_run
    /\ IF ~IsTerminal(remote_run)
       THEN pc' = "poll" /\ config' = config
       ELSE IF RunFailed(remote_run)
            THEN pc' = "error" /\ config' = OnError(config)
            ELSE pc' = "list_messages" /\ config' = config
    /\ UNCHANGED <<now, remoteVars, calls, restarts, assistant_id, thread_id, result,
                   histVars, createdA, createdT, threadPath>>
    /\ UNCHANGED nonSessVars

\* messages.list answers: the newest assistant message is the result
ListMessagesOk ==
    /\ pc = "list_messages"
    /\ LET m == LatestAssistant(threads[thread_id].msgs)
       IN IF m = NoMsg
          THEN pc' = "error" /\ result' = NoMsg /\ config' = OnError(config)
          ELSE pc' = "returned" /\ result' = m /\ config' = config
    /\ UNCHANGED <<now, remoteVars, calls, restarts, assistant_id, thread_id,
                   run_status, histVars, createdA, createdT, threadPath>>
    /\ UNCHANGED nonSessVars

\* a call inside the inner try raises "No assistant found"
RunCallNotFound ==
    /\ pc \in {"create_run", "poll", "list_messages"}
    /\ Restart

\* a call inside the inner try raises anything else
RunCallError ==
    /\ pc \in {"create_run", "poll", "list_messages"}
    /\ Fail

NextSession ==
    \/ Begin
    \/ CreateAssistantOk
    \/ CreateAssistantFail
    \/ RetrieveAssistantOk
    \/ RetrieveAssistantNotFound
    \/ RetrieveAssistantError
    \/ RetrieveThreadOk
    \/ RetrieveThreadNotFound
    \/ RetrieveThreadError
    \/ CreateThreadOk
    \/ CreateThreadFail
    \/ CreateMessageOk
    \/ CreateMessageFail
    \/ CreateRunOk
    \/ RemoteRunAdvance
    \/ PollStatus
    \/ ListMessagesOk
    \/ RunCallNotFound
    \/ RunCallError

\* --------------------------------------------------- run_pipeline: steps

InitPipeline ==
    /\ ppc = "idle"
    /\ cycle = 0
    /\ state = NewState(NoTime)
    /\ stateFile = [kind |-> "absent", content |-> NewState(NoTime)]
    /\ counts = <<0, 0>>
    /\ cycleStart = NoTime
    /\ cycleFailure = "none"
    /\ stagesRun = {}

\* main: the configuration is loaded and validated, the interval computed
InitMain ==
    /\ runs_per_day \in RunsPerDayValues
    /\ interval = CalculateIntervalSeconds(runs_per_day)
    /\ sleeps = 0

sessNoClock == <<config, threads, nextAssistant, nextThread, remote_run,
                 pc, calls, restarts, assistant_id, thread_id,
                 run_status, result, config0, stale0, createdA, createdT,
                 threadPath, prevRun>>

\* what a stage of run_pipeline leaves alone, the clock apart
nonCycleVars == <<sessNoClock, mainVars, fileVars, textVars, normVars, poolVars, roundVars, delVars, dayVars>>

\* the except clause of run_pipeline: record the failure, go on to the state file
StageRaised(stage, err) ==
    /\ state' = FailedState(state, err)
    /\ cycleFailure' = err
    /\ stagesRun' = stagesRun \cup {stage}
    /\ ppc' = "write_state"
    /\ UNCHANGED <<cycle, stateFile, counts, cycleStart, now, nonCycleVars>>

\* the stage returned: run_pipeline calls the next one
StageReturned(stage, next) ==
    /\ stagesRun' = stagesRun \cup {stage}
    /\ ppc' = next
    /\ UNCHANGED <<cycle, state, stateFile, counts, cycleStart, cycleFailure, now,
                   nonCycleVars>>

\* main calls run_pipeline: at once, or in continuous mode (interval # 0)
\* again after time.sleep(interval)
StartCycle ==
    /\ ppc = "idle" \/ (ppc = "done" /\ interval # 0)
    /\ cycle < MaxCycles
    /\ sleeps' = IF ppc = "done" THEN sleeps + 1 ELSE sleeps
    /\ UNCHANGED <<runs_per_day, interval>>
    /\ \E t \in now..MaxTime :
        /\ now' = t
        /\ cycleStart' = t
        /\ state' = NewState(t)
    /\ cycle' = cycle + 1
    /\ cycleFailure' = "none"
    /\ stagesRun' = {}
    /\ counts' = <<0, 0>>
    /\ ppc' = "download"
    /\ UNCHANGED <<stateFile, sessNoClock, fileVars, textVars, normVars, poolVars, roundVars, delVars, dayVars>>

\* run-once mode (interval == 0): run_pipeline has returned and main returns
MainReturns ==
    /\ ppc = "done"
    /\ interval = 0
    /\ ppc' = "finished"
    /\ UNCHANGED <<cycle, state, stateFile, counts, cycleStart, cycleFailure,
                   stagesRun, now, nonCycleVars>>

\* Step 1: download_files_main()
DownloadReturns == ppc = "download" /\ StageReturned("download", "transcribe")

DownloadRaises == ppc = "download" /\ StageRaised("download", "download_raised")

\* Step 2: run_transcribe()
TranscribeReturns == ppc = "transcribe" /\ StageReturned("transcribe", "parse")

TranscribeRaises == ppc = "transcribe" /\ StageRaised("transcribe", "transcribe_raised")

\* Step 3: parse_calendar_entries() returns True or False; the value is dropped
ParseReturns == ppc = "parse" /\ StageReturned("parse", "insert")

ParseRaises == ppc = "parse" /\ StageRaised("parse", "parse_raised")

\* parse_calendar_entries: load_config, load_openai_config and load_prompts end
\* in sys.exit(1) when the file cannot be read; SystemExit is no Exception, so
\* neither run_pipeline nor main catches it and no state is written
ParseConfigUnreadable ==
    /\ ppc = "parse"
    /\ cycleFailure' = "config_unreadable"
    /\ stagesRun' = stagesRun \cup {"parse"}
    /\ ppc' = "exited"
    /\ UNCHANGED <<cycle, state, stateFile, counts, cycleStart, now, nonCycleVars>>

\* Step 4: process_calendar_event_files() processed the files it found
InsertReturnsCounts ==
    /\ ppc = "insert"
    /\ \E created \in 0..MaxEvents, failed \in 0..MaxEvents :
            counts' = <<created, failed>>
    /\ stagesRun' = stagesRun \cup {"insert"}
    /\ ppc' = "delete"
    /\ UNCHANGED <<cycle, state, stateFile, cycleStart, cycleFailure, now, nonCycleVars>>

\* Step 4 gives up: a config not found, the JSON directory missing, the
\* authentication failing or any exception: logged, return 0, 0
InsertGivesUp ==
    /\ ppc = "insert"
    /\ \E f \in InsertStageFailures : cycleFailure' = f
    /\ counts' = <<0, 0>>
    /\ stagesRun' = stagesRun \cup {"insert"}
    /\ ppc' = "delete"
    /\ UNCHANGED <<cycle, state, stateFile, cycleStart, now, nonCycleVars>>

\* Step 5: delete_files_main(), its exceptions caught; then the success summary
DeleteStage ==
    /\ ppc = "delete"
    /\ state' = SuccessState(state, counts[1], counts[2])
    /\ stagesRun' = stagesRun \cup {"delete"}
    /\ ppc' = "write_state"
    /\ UNCHANGED <<cycle, stateFile, counts, cycleStart, cycleFailure, now, nonCycleVars>>

\* update_pipeline_state(STATE_FILE, state), then run_pipeline returns
WriteState ==
    /\ ppc = "write_state"
    /\ \E outcome \in {"written", "open_failed", "dump_failed"} :
            stateFile' = UpdatePipelineState(stateFile, state, outcome)
    /\ ppc' = "done"
    /\ UNCHANGED <<cycle, state, counts, cycleStart, cycleFailure, stagesRun, now,
                   nonCycleVars>>

NextPipeline ==
    \/ StartCycle
    \/ DownloadReturns
    \/ DownloadRaises
    \/ TranscribeReturns
    \/ TranscribeRaises
    \/ ParseReturns
    \/ ParseRaises
    \/ ParseConfigUnreadable
    \/ InsertReturnsCounts
    \/ InsertGivesUp
    \/ DeleteStage
    \/ WriteState
    \/ MainReturns

\* ------------------------------------- the stages over the files: helpers

\* an event file not there
NoFile == [kind |-> "none", events |-> <<>>]

\* the events a response to transcript t can hold: the i-th event of the
\* response, a JSON object (dict) or some other JSON value, with its summary
\* and its start as the validation reads them
EventShapes ==
    { [dict |-> TRUE, summary |-> "text", start |-> "dateTime"],
      [dict |-> TRUE, summary |-> "text", start |-> "date"],
      [dict |-> TRUE, summary |-> "absent", start |-> "dateTime"],
      [dict |-> TRUE, summary |-> "text", start |-> "empty"],
      [dict |-> TRUE, summary |-> "text", start |-> "string"],
      [dict |-> FALSE, summary |-> "absent", start |-> "absent"] }

\* the events a response of the parse stage holds in the model
ResponseShapes ==
    { [dict |-> TRUE, summary |-> "text", start |-> "dateTime"],
      [dict |-> TRUE, summary |-> "absent", start |-> "dateTime"] }

EventOf(t, i, shape) ==
    [id |-> <<t, i>>, dict |-> shape.dict, summary |-> shape.summary, start |-> shape.start]

EventIds == (1..MaxTranscripts) \X (1..MaxListLen)

\* the event files with events of the given shapes: one JSON value, or a
\* non-empty list of them
EventFiles(t, shapes) ==
    { [kind |-> "single", events |-> <<EventOf(t, 1, sh)>>] : sh \in shapes }
    \cup
    UNION { { [kind |-> "list", events |-> [i \in 1..n |-> EventOf(t, i, f[i])]] :
                f \in [1..n -> shapes] } : n \in 1..MaxListLen }

\* what extract_json_from_text can return for a response to transcript t and
\* save_json_output then writes: one JSON value, or a non-empty list of them
ExtractedObjects(t) ==
    EventFiles(t, ResponseShapes)

\* a malformed event file
Malformed == [kind |-> "malformed", events |-> <<>>]

\* a transcript as load_transcription reads it: characters, blank or not
TranscriptContents == UNION { [1..n -> {" ", "a"}] : n \in 0..MaxTextLen }

\* content.strip()
RECURSIVE Strip(_)
Strip(text) ==
    IF text = <<>> THEN <<>>
    ELSE IF Head(text) = " " THEN Strip(Tail(text))
    ELSE IF text[Len(text)] = " " THEN Strip(SubSeq(text, 1, Len(text) - 1))
    ELSE text

SkipsOnlyEmpty(loaded, content) == ~loaded \/ content = <<>>
\* if not content: continue / if not content.strip(): continue
SkipsTranscript(loaded, content) == ~loaded \/ content = <<>> \/ Strip(content) = <<>>

\* save_to_database(json_object): a row is written for a dict with a summary
\* and a start dateTime or date, when save_calendar_event returns an id; any
\* exception (a list, a start that is no dict) is caught and gives None
ParseStageStores(obj, db) ==
    /\ obj.kind = "single"
    /\ obj.events[1].dict
    /\ obj.events[1].summary = "text"
    /\ obj.events[1].start \in {"dateTime", "date"}
    /\ db = "ok"

\* the settings process_calendar_event_files reads from the scheduler config
InsertConfigs ==
    [archive : BOOLEAN,
     required : {{"summary", "start"}, {}},
     startf : {{"dateTime", "date"}, {"dateTime"}}]

\* not event.get(field)
MissingField(ev, field) ==
    CASE field = "summary" -> ev.summary \in {"absent", "empty"}
      [] field = "start" -> ev.start \in {"absent", "empty"}

ValidateEventNoStartCheck(ev, cfg) ==
    IF ~ev.dict THEN "raised"
    ELSE IF \E f \in cfg.required : MissingField(ev, f) THEN "missing"
    ELSE "valid"
\* the validation of one event: required fields, then a populated start field
ValidateEvent(ev, cfg) ==
    IF ~ev.dict THEN "raised"
    ELSE IF \E f \in cfg.required : MissingField(ev, f) THEN "missing"
    ELSE IF ev.start = "string" THEN "raised"
    ELSE IF ev.start \in cfg.startf THEN "valid"
    ELSE "no_start"

EventResultStoreCounts(ev, cfg, ins, st) ==
    LET v == ValidateEvent(ev, cfg)
    IN [verdict |-> v,
        passed |-> v = "valid",
        created |-> v = "valid" /\ ins = "ok",
        failed |-> ~(v = "valid" /\ ins = "ok" /\ st = "ok"),
        stored |-> v = "valid" /\ ins = "ok" /\ st = "ok"]
\* one event: validated, passed to insert_event, counted, saved to the store
EventResult(ev, cfg, ins, st) ==
    LET v == ValidateEvent(ev, cfg)
    IN [verdict |-> v,
        passed |-> v = "valid",
        created |-> v = "valid" /\ ins = "ok",
        failed |-> ~(v = "valid" /\ ins = "ok"),
        stored |-> v = "valid" /\ ins = "ok" /\ st = "ok"]

\* what insert_event answers when it is called: the created event, None (an
\* HttpError), or another exception
InsertOutcomes(ev, cfg) ==
    IF ValidateEvent(ev, cfg) = "valid" THEN {"ok", "none", "raise"} ELSE {"not_called"}

\* what save_calendar_event answers when it is called: an id, None, an exception
StoreOutcomes(ins) ==
    IF ins = "ok" THEN {"ok", "none", "raise"} ELSE {"not_called"}

\* if file_success_count > 0 and archive_processed_files (a list);
\* if result: ... if archive_processed_files (a single event)
ArchiveDecision(created, failed, cfg) == created > 0 /\ cfg.archive

\* the settings process_deletions reads from the file_utils config
DeleteConfigs == [enabled : BOOLEAN, json_dir : BOOLEAN, txt_dir : BOOLEAN]

\* the files left of a directory: all of them when the directory is not
\* deleted from, else those whose unlink fails
UnlinkFailures(deleting, files) == IF deleting THEN SUBSET files ELSE {files}

NoParse == [t |-> 0, content |-> <<>>, outcome |-> "none", called |-> FALSE,
            wrote |-> 0, stored |-> FALSE]
\* the settings with the default validation
DefaultValidation ==
    { c \in InsertConfigs : c.required = {"summary", "start"} /\ c.startf = {"dateTime", "date"} }
\* the defaults of process_calendar_event_files
DefaultConfig ==
    [archive |-> TRUE, required |-> {"summary", "start"}, startf |-> {"dateTime", "date"}]

\* --------------------------------------- the stages over the files: steps

InitFilesWith(cfgs) ==
    /\ fpc = "idle"
    /\ fcycle = 0
    /\ stamp = 1
    /\ transcripts = 1..MaxTranscripts
    /\ todoT = {}
    /\ jsonDir = [n \in 1..MaxStamp |-> NoFile]
    /\ todoJ = {}
    /\ archived = {}
    /\ calendar = [e \in EventIds |-> 0]
    /\ store = [e \in EventIds |-> 0]
    /\ icfg \in cfgs
    /\ success_count = 0
    /\ error_count = 0
    /\ cur = 0
    /\ idx = 0
    /\ file_success_count = 0
    /\ insertCalls = 0
    /\ lastT = NoParse
    /\ lastArchive = "none"
    /\ parse_count = 0
    /\ failedNames = {}
    /\ parseFailures = {}

InitFiles == InitFilesWith({DefaultConfig})

\* what a step of the stages over the files leaves alone
nonFileVars == <<sessVars, pipeVars, mainVars, textVars, normVars, poolVars, roundVars, delVars, dayVars>>

dirVars == <<transcripts, jsonDir, archived>>
loopVars == <<cur, idx, file_success_count>>
countVars == <<success_count, error_count, insertCalls>>

\* a cycle starts: parse_calendar_entries lists the transcription files; a
\* later cycle starts at least a second after the one before
StartFileCycle ==
    /\ fpc = "idle"
    /\ fcycle < MaxFileCycles
    /\ fcycle > 0 => stamp < MaxStamp
    /\ stamp' = IF fcycle > 0 THEN stamp + 1 ELSE stamp
    /\ fcycle' = fcycle + 1
    /\ todoT' = transcripts
    /\ lastT' = NoParse
    /\ UNCHANGED lastArchive
    /\ parse_count' = 0
    /\ fpc' = "parse"
    /\ UNCHANGED <<dirVars, todoJ, calendar, store, icfg, loopVars, countVars,
                   failedNames, parseFailures>>
    /\ UNCHANGED nonFileVars

\* the parse stage skips a transcript: unreadable, empty or blank
ParseSkips(t) ==
    /\ fpc = "parse"
    /\ t \in todoT
    /\ \A u \in todoT : t <= u
    /\ \E loaded \in BOOLEAN, content \in TranscriptContents :
        /\ SkipsTranscript(loaded, content)
        /\ lastT' = [NoParse EXCEPT !.t = t,
                        !.content = IF loaded THEN content ELSE <<>>,
                        !.outcome = IF loaded THEN "skipped" ELSE "unreadable"]
    /\ UNCHANGED <<lastArchive, parse_count>>
    /\ todoT' = todoT \ {t}
    /\ UNCHANGED <<fpc, fcycle, stamp, dirVars, todoJ, calendar, store, icfg, loopVars,
                   countVars, failedNames, parseFailures>>
    /\ UNCHANGED nonFileVars

\* the extraction call raises, returns nothing, or its response holds no JSON:
\* logged, on to the next transcript
ParseFails(t) ==
    /\ fpc = "parse"
    /\ t \in todoT
    /\ \A u \in todoT : t <= u
    /\ \E content \in TranscriptContents, how \in {"raised", "no_response", "no_json"} :
        /\ ~SkipsTranscript(TRUE, content)
        /\ lastT' = [NoParse EXCEPT !.t = t, !.content = content, !.outcome = how,
                                    !.called = TRUE]
    /\ UNCHANGED <<lastArchive, parse_count>>
    /\ todoT' = todoT \ {t}
    /\ parseFailures' = parseFailures \cup {t}
    /\ UNCHANGED <<fpc, fcycle, stamp, dirVars, todoJ, calendar, store, icfg, loopVars,
                   countVars, failedNames>>
    /\ UNCHANGED nonFileVars

\* the extraction call answers and save_json_output writes the event file,
\* named by the second; then save_to_database(json_object)
ParseSaves(t) ==
    /\ fpc = "parse"
    /\ t \in todoT
    /\ \A u \in todoT : t <= u
    /\ \E content \in TranscriptContents, obj \in ExtractedObjects(t),
          db \in {"ok", "fail"}, c \in {stamp, stamp + 1} \cap (1..MaxStamp) :
        /\ ~SkipsTranscript(TRUE, content)
        /\ stamp' = c
        /\ jsonDir' = [jsonDir EXCEPT ![c] = obj]
        /\ store' = IF ParseStageStores(obj, db)
                    THEN [store EXCEPT ![<<t, 1>>] = @ + 1]
                    ELSE store
        /\ lastT' = [t |-> t, content |-> content, outcome |-> "saved", called |-> TRUE,
                     wrote |-> c, stored |-> ParseStageStores(obj, db)]
    /\ UNCHANGED lastArchive
    /\ parse_count' = parse_count + 1
    /\ todoT' = todoT \ {t}
    /\ UNCHANGED <<fpc, fcycle, transcripts, archived, todoJ, calendar, icfg, loopVars,
                   countVars, failedNames, parseFailures>>
    /\ UNCHANGED nonFileVars

\* process_calendar_event_files starts: the settings are read, the event files
\* of the output directory listed, the counts set to zero
StartInsert ==
    /\ fpc = "parse"
    /\ todoT = {}
    /\ todoJ' = {n \in DOMAIN jsonDir : jsonDir[n] # NoFile}
    /\ success_count' = 0
    /\ error_count' = 0
    /\ insertCalls' = 0
    /\ lastT' = NoParse
    /\ UNCHANGED lastArchive
    /\ parse_count' = 0
    /\ fpc' = "insert"
    /\ UNCHANGED <<fcycle, stamp, dirVars, todoT, calendar, store, icfg, loopVars,
                   failedNames, parseFailures>>
    /\ UNCHANGED nonFileVars

\* the next json_file: open and json.load succeed
OpenFile(n) ==
    /\ fpc = "insert"
    /\ cur = 0
    /\ n \in todoJ
    /\ \A m \in todoJ : n <= m
    /\ jsonDir[n].kind # "malformed"
    /\ cur' = n
    /\ idx' = 1
    /\ file_success_count' = 0
    /\ UNCHANGED <<fpc, fcycle, stamp, dirVars, todoT, todoJ, calendar, store, icfg,
                   countVars, lastT, failedNames, parseFailures>>
    /\ lastArchive' = "none"
    /\ UNCHANGED parse_count
    /\ UNCHANGED nonFileVars

\* the next json_file: open or json.load raises; counted, on to the next file
ReadFails(n) ==
    /\ fpc = "insert"
    /\ cur = 0
    /\ n \in todoJ
    /\ \A m \in todoJ : n <= m
    /\ error_count' = error_count + 1
    /\ todoJ' = todoJ \ {n}
    /\ UNCHANGED <<fpc, fcycle, stamp, dirVars, todoT, calendar, store, icfg, loopVars,
                   success_count, insertCalls, lastT, failedNames, parseFailures>>
    /\ UNCHANGED <<lastArchive, parse_count>>
    /\ UNCHANGED nonFileVars

\* one event of json_file: validation, insert_event, save_calendar_event
ProcessEvent ==
    /\ fpc = "insert"
    /\ cur # 0
    /\ idx <= Len(jsonDir[cur].events)
    /\ \E ins \in InsertOutcomes(jsonDir[cur].events[idx], icfg) :
       \E st \in StoreOutcomes(ins) :
        LET ev == jsonDir[cur].events[idx]
            r == EventResult(ev, icfg, ins, st)
        IN /\ insertCalls' = IF r.passed THEN insertCalls + 1 ELSE insertCalls
           /\ success_count' = IF r.created THEN success_count + 1 ELSE success_count
           /\ file_success_count' = IF r.created THEN file_success_count + 1
                                    ELSE file_success_count
           /\ error_count' = IF r.failed THEN error_count + 1 ELSE error_count
           /\ calendar' = IF r.created THEN [calendar EXCEPT ![ev.id] = @ + 1] ELSE calendar
           /\ store' = IF r.stored THEN [store EXCEPT ![ev.id] = @ + 1] ELSE store
           /\ failedNames' = IF r.failed THEN failedNames \cup {cur} ELSE failedNames
    /\ idx' = idx + 1
    /\ UNCHANGED <<fpc, fcycle, stamp, dirVars, todoT, todoJ, icfg, cur, lastT,
                   parseFailures>>
    /\ UNCHANGED <<lastArchive, parse_count>>
    /\ UNCHANGED nonFileVars

\* after the events of json_file: the archive step, then the next file
ArchiveStep ==
    /\ fpc = "insert"
    /\ cur # 0
    /\ idx > Len(jsonDir[cur].events)
    /\ \E mkdir \in BOOLEAN, rename \in BOOLEAN :
        LET try == ArchiveDecision(file_success_count,
                                   Len(jsonDir[cur].events) - file_success_count, icfg)
            moved == try /\ mkdir /\ rename
        IN /\ jsonDir' = IF moved THEN [jsonDir EXCEPT ![cur] = NoFile] ELSE jsonDir
           /\ archived' = IF moved THEN archived \cup {cur} ELSE archived
           /\ error_count' = IF try /\ ~mkdir THEN error_count + 1 ELSE error_count
           /\ lastArchive' = IF ~try THEN "not_tried"
                             ELSE IF ~mkdir THEN "mkdir_failed"
                             ELSE IF ~rename THEN "rename_failed"
                             ELSE "archived"
    /\ UNCHANGED parse_count
    /\ todoJ' = todoJ \ {cur}
    /\ cur' = 0
    /\ idx' = 0
    /\ file_success_count' = 0
    /\ UNCHANGED <<fpc, fcycle, stamp, transcripts, todoT, calendar, store, icfg,
                   success_count, insertCalls, lastT, failedNames, parseFailures>>
    /\ UNCHANGED nonFileVars

\* the loop is over: return success_count, error_count
FinishInsert ==
    /\ fpc = "insert"
    /\ cur = 0
    /\ todoJ = {}
    /\ fpc' = "delete"
    /\ UNCHANGED <<fcycle, stamp, dirVars, todoT, todoJ, calendar, store, icfg, loopVars,
                   countVars, lastT, failedNames, parseFailures>>
    /\ UNCHANGED <<lastArchive, parse_count>>
    /\ UNCHANGED nonFileVars

\* delete_files_main: when deletion is enabled, the *.json files of the JSON
\* directory and the *.txt files of the transcription directory are unlinked,
\* those apart whose unlink fails; the cycle is over, and what the insertion
\* stage returned is gone with it
DeleteFiles ==
    /\ fpc = "delete"
    /\ \E del \in { <<d.enabled /\ d.json_dir, d.enabled /\ d.txt_dir>> : d \in DeleteConfigs } :
       \E keepJ \in UnlinkFailures(del[1], {n \in DOMAIN jsonDir : jsonDir[n] # NoFile}),
          keepT \in UnlinkFailures(del[2], transcripts) :
        /\ jsonDir' = [n \in DOMAIN jsonDir |-> IF n \in keepJ THEN jsonDir[n] ELSE NoFile]
        /\ transcripts' = keepT
    /\ archived' = {}
    /\ failedNames' = {}
    /\ parseFailures' = {}
    /\ lastArchive' = "none"
    /\ UNCHANGED parse_count
    /\ success_count' = 0
    /\ error_count' = 0
    /\ insertCalls' = 0
    /\ fpc' = "idle"
    /\ UNCHANGED <<fcycle, stamp, todoT, todoJ, calendar, store, icfg, loopVars, lastT>>
    /\ UNCHANGED nonFileVars

NextFiles ==
    \/ StartFileCycle
    \/ \E t \in 1..MaxTranscripts : ParseSkips(t)
    \/ \E t \in 1..MaxTranscripts : ParseFails(t)
    \/ \E t \in 1..MaxTranscripts : ParseSaves(t)
    \/ StartInsert
    \/ \E n \in 1..MaxStamp : OpenFile(n)
    \/ \E n \in 1..MaxStamp : ReadFails(n)
    \/ ProcessEvent
    \/ ArchiveStep
    \/ FinishInsert
    \/ DeleteFiles

\* ------------------------------------------------ extract_json_from_text

\* a response text as a sequence of tokens: a brace, the pairs of an object
\* (outside braces so much prose), a string literal, a number, a code fence
\* (three backticks)
Tokens == {"{", "}", "k", "s", "n", "fence"}

Texts == UNION { [1..n -> Tokens] : n \in 0..MaxTokens }

\* None
NoValue == <<>>

\* the texts json.loads accepts: a number, a string, the empty object, an
\* object of pairs
JsonValues == { <<"n">>, <<"s">>, <<"{", "}">>, <<"{", "k", "}">> }

\* if not json_object: None and the empty object are falsy (the number and
\* the string of the model are not 0 and not "")
Falsy(v) == v \in {NoValue, <<"{", "}">>}

\* json.loads(text): the value, None standing for JSONDecodeError
JsonLoads(s) == IF s \in JsonValues THEN s ELSE NoValue

Least(S) == CHOOSE i \in S : \A j \in S : i <= j
Greatest(S) == CHOOSE i \in S : \A j \in S : j <= i

\* re.findall over fence, content (non-greedy), fence: a fence with the next
\* fence after it, then on from behind that one
RECURSIVE FencedBlocks(_)
FencedBlocks(s) ==
    LET F == {i \in 1..Len(s) : s[i] = "fence"}
    IN IF Cardinality(F) < 2 THEN <<>>
       ELSE LET a == Least(F)
                b == Least(F \ {a})
            IN <<SubSeq(s, a + 1, b - 1)>> \o FencedBlocks(SubSeq(s, b + 1, Len(s)))

\* for match in json_block_matches: the first block that json.loads accepts
RECURSIVE FirstParsing(_)
FirstParsing(blocks) ==
    IF blocks = <<>> THEN NoValue
    ELSE IF JsonLoads(Head(blocks)) # NoValue THEN JsonLoads(Head(blocks))
    ELSE FirstParsing(Tail(blocks))

\* re.search for { anything }, greedy: from the first { to the last } behind it
GreedyBraces(s) ==
    LET O == {i \in 1..Len(s) : s[i] = "{"}
    IN IF O = {} THEN NoValue
       ELSE LET C == {i \in 1..Len(s) : i > Least(O) /\ s[i] = "}"}
            IN IF C = {} THEN NoValue ELSE SubSeq(s, Least(O), Greatest(C))

ExtractJsonGreedyFirst(s) ==
    IF JsonLoads(s) # NoValue THEN JsonLoads(s)
    ELSE IF JsonLoads(GreedyBraces(s)) # NoValue THEN JsonLoads(GreedyBraces(s))
    ELSE FirstParsing(FencedBlocks(s))
\* whole text, then the fenced blocks, then the brace search
ExtractJsonFromText(s) ==
    IF JsonLoads(s) # NoValue THEN JsonLoads(s)
    ELSE IF FirstParsing(FencedBlocks(s)) # NoValue THEN FirstParsing(FencedBlocks(s))
    ELSE JsonLoads(GreedyBraces(s))

\* no call of extract_json_from_text under way
InitText ==
    /\ tpc = "done"
    /\ json_data = <<>>
    /\ extracted = NoValue
    /\ written = FALSE

\* what a step of extract_json_from_text leaves alone
nonTextVars == <<sessVars, pipeVars, mainVars, fileVars, normVars, poolVars, roundVars, delVars, dayVars>>

\* json_object = extract_json_from_text(json_data)
ExtractJson ==
    /\ tpc = "input"
    /\ extracted' = ExtractJsonFromText(json_data)
    /\ tpc' = "done"
    /\ UNCHANGED <<json_data, written>>
    /\ UNCHANGED nonTextVars

\* if not json_object: return None, None; else the file is written and
\* returned with the object, unless the write raises
WriteJson ==
    /\ tpc = "done"
    /\ \E ok \in BOOLEAN : written' = (~Falsy(extracted) /\ ok)
    /\ tpc' = "saved"
    /\ UNCHANGED <<json_data, extracted>>
    /\ UNCHANGED nonTextVars

\* ------------------------------------------ the normalisation of an event

\* 'dateTime' not in the dict
NoDateTime == [form |-> "absent", day |-> 0, hour |-> 0, tz |-> ""]

\* the hours a start may have: midnight and the hours from which the
\* configured duration crosses midnight
Hours == {0} \cup ((HoursPerDay - MaxDuration)..(HoursPerDay - 1))

\* the suffix of a dateTime string: none, a positive offset, Z, a negative offset
Zones == {"", "+01:00", "Z", "-05:00"}

\* the strings a dateTime may hold, by what the code can do with them:
\*   iso     date T time, accepted by datetime.fromisoformat
\*   loose   one T and a numeric hour, rejected by fromisoformat (2025-1-5T23:30:00)
\*   nohour  one T, no numeric hour (2025-1-5Tnoon:00)
\*   date    a date and no T (2025-01-05)
\*   words   no T, rejected by fromisoformat (tomorrow 5pm)
\*   blank   the empty string
DateTimes ==
    [form : {"iso", "loose"}, day : 1..MaxDay, hour : Hours, tz : Zones]
    \cup [form : {"date", "words", "nohour"}, day : 1..MaxDay, hour : {0}, tz : {""}]
    \cup {[form |-> "blank", day |-> 0, hour |-> 0, tz |-> ""]}

\* if value: a string other than the empty one
Truthy(dt) == dt.form \notin {"absent", "blank"}

\* the key is not in the event
NoObject == [present |-> FALSE, dict |-> FALSE, dateTime |-> NoDateTime, date |-> NoDate]

\* the key holds a string instead of an object
NotADict == [present |-> TRUE, dict |-> FALSE, dateTime |-> NoDateTime, date |-> NoDate]

TimeObject(dt, d) == [present |-> TRUE, dict |-> TRUE, dateTime |-> dt, date |-> d]

Starts ==
    {NoObject, NotADict}
    \cup {TimeObject(dt, d) : dt \in DateTimes \cup {NoDateTime}, d \in {NoDate} \cup (1..MaxDay)}

GivenEnd == [form |-> "iso", day |-> MaxDay, hour |-> HoursPerDay - 1, tz |-> ""]

Ends ==
    {NoObject, NotADict, TimeObject(NoDateTime, NoDate),
     TimeObject([form |-> "blank", day |-> 0, hour |-> 0, tz |-> ""], NoDate),
     TimeObject(GivenEnd, NoDate), TimeObject(NoDateTime, MaxDay)}

Events == [summary : {"absent", "text"}, description : {"absent", "text"},
           start : Starts, end : Ends]

\* the event {}
EmptyEvent == [summary |-> "absent", description |-> "absent",
               start |-> NoObject, end |-> NoObject]

FieldLists == {{"dateTime", "date"}, {"dateTime"}, {"date"}}

SchedulerConfigs ==
    [add_end_time_if_missing : BOOLEAN, default_event_duration_hours : 1..MaxDuration,
     start_fields : FieldLists, end_fields : FieldLists]

DefaultSchedulerConfig ==
    [add_end_time_if_missing |-> TRUE, default_event_duration_hours |-> 1,
     start_fields |-> {"dateTime", "date"}, end_fields |-> {"dateTime", "date"}]

\* any(obj.get(field) for field in fields)
HasValid(obj, fields) ==
    \/ "dateTime" \in fields /\ Truthy(obj.dateTime)
    \/ "date" \in fields /\ obj.date # NoDate

\* start_dt + timedelta(hours=d), isoformat() + tz_part
AddHours(dt, d) ==
    [form |-> "iso", day |-> dt.day + ((dt.hour + d) \div HoursPerDay),
     hour |-> (dt.hour + d) % HoursPerDay, tz |-> dt.tz]

\* except Exception: the hour of the string replaced, the date part kept
FallbackHour(dt, d) == [dt EXCEPT !.hour = (dt.hour + d) % HoursPerDay]

CopyDateTimeOnly(start, end, fields) ==
    [end EXCEPT !.dateTime = IF "dateTime" \in fields /\ start.dateTime # NoDateTime
                             THEN start.dateTime ELSE @]
\* for field in start_fields: if field in event['start']: copy it to end
CopyStart(start, end, fields) ==
    [end EXCEPT !.dateTime = IF "dateTime" \in fields /\ start.dateTime # NoDateTime
                             THEN start.dateTime ELSE @,
                !.date = IF "date" \in fields /\ start.date # NoDate
                         THEN start.date ELSE @]

\* if 'dateTime' in event['start']: the end computed from the start
ComputedEnd(start, end, d) ==
    CASE start.dateTime.form \in {"iso", "date"} ->
            [end EXCEPT !.dateTime = AddHours(start.dateTime, d)]
      [] start.dateTime.form = "loose" ->
            [end EXCEPT !.dateTime = FallbackHour(start.dateTime, d)]
      [] OTHER -> end

Passed(ev) == [status |-> "passed", event |-> ev]
Skipped(ev) == [status |-> "skipped", event |-> ev]
Raised(ev) == [status |-> "raised", event |-> ev]
NoOutcome == [status |-> "none", event |-> EmptyEvent]

\* one event of a file up to the call of insert_event: the required fields,
\* the start check, then the end added if it is missing
NormalizedEvent(ev, cfg) ==
    IF ev.summary = "absent" \/ ~ev.start.present THEN Skipped(ev)
    ELSE IF ~ev.start.dict THEN Raised(ev)
    ELSE IF ~HasValid(ev.start, cfg.start_fields) THEN Skipped(ev)
    ELSE IF ~cfg.add_end_time_if_missing THEN Passed(ev)
    ELSE IF ev.end.present /\ ~ev.end.dict THEN Raised(ev)
    ELSE IF ev.end.present /\ HasValid(ev.end, cfg.end_fields) THEN Passed(ev)
    ELSE IF ev.start.dateTime.form = "nohour" THEN Raised(ev)
    ELSE LET end0 == IF ev.end.present THEN ev.end ELSE TimeObject(NoDateTime, NoDate)
             end1 == CopyStart(ev.start, end0, cfg.start_fields)
         IN Passed([ev EXCEPT !.end =
                        ComputedEnd(ev.start, end1, cfg.default_event_duration_hours)])

\* datetime.now().isoformat()
NowIso == [form |-> "iso", day |-> MaxDay, hour |-> 0, tz |-> ""]

Valid(ev) == [status |-> "valid", event |-> ev]
Invalid == [status |-> "invalid", event |-> EmptyEvent]

\* validate_and_complete_event(event_data): the summary, the start and the end
\* completed where they are missing
ValidateAndCompleteEvent(ev) ==
    IF ev = EmptyEvent THEN Invalid
    ELSE IF ev.start.present /\ ~ev.start.dict THEN Raised(ev)
    ELSE IF ev.end.present /\ ~ev.end.dict THEN Raised(ev)
    ELSE LET summary == IF ev.summary # "absent" THEN ev.summary
                        ELSE IF ev.description # "absent" THEN "generated"
                        ELSE "placeholder"
             start == IF Truthy(ev.start.dateTime) \/ ev.start.date # NoDate THEN ev.start
                      ELSE TimeObject(NowIso, ev.start.date)
             end0 == IF ev.end.present THEN ev.end ELSE TimeObject(NoDateTime, NoDate)
             end == IF Truthy(ev.end.dateTime) \/ ev.end.date # NoDate THEN ev.end
                    ELSE IF start.dateTime # NoDateTime
                    THEN [end0 EXCEPT !.dateTime =
                            IF start.dateTime.form = "iso" THEN AddHours(start.dateTime, 1)
                            ELSE start.dateTime]
                    ELSE [end0 EXCEPT !.date = start.date]
         IN Valid([ev EXCEPT !.summary = summary, !.start = start, !.end = end])

\* 'attendees' not in event
NoAttendees == [present |-> FALSE, list |-> FALSE, items |-> <<>>]

\* event['attendees'] is a string
NotAList == [present |-> TRUE, list |-> FALSE, items |-> <<>>]

\* an element that is a string
NotAnAttendee == [dict |-> FALSE, email |-> "absent", displayName |-> "absent"]

\* the elements of event['attendees']: email missing, empty or given;
\* displayName missing, empty, punctuation only, or a name
AttendeeShapes ==
    {NotAnAttendee}
    \cup [dict : {TRUE}, email : {"absent", "", "ann@mail.org"},
          displayName : {"absent", "", "!!!", "Bob Ray"}]

AttendeeValues ==
    {NoAttendees, NotAList}
    \cup {[present |-> TRUE, list |-> TRUE, items |-> l] :
            l \in UNION {[1..n -> AttendeeShapes] : n \in 0..MaxAttendees}}

\* the characters of display_name that are alphanumeric or a space,
\* lowercased, spaces replaced by dots; attendee<i+1> when there is no name
SanitizedName(a, i) ==
    CASE a.displayName = "absent" -> "attendee" \o ToString(i)
      [] a.displayName = "Bob Ray" -> "bob.ray"
      [] OTHER -> ""

\* if isinstance(attendee, dict) and 'email' not in attendee: the placeholder
FixAttendee(a, i) ==
    IF a.dict /\ a.email = "absent"
    THEN [a EXCEPT !.email = SanitizedName(a, i) \o "@example.com"]
    ELSE a

NeedsFix(v) == {i \in 1..Len(v.items) : v.items[i].dict /\ v.items[i].email = "absent"}

FixFirstAttendee(v) ==
    IF v.present /\ v.list /\ NeedsFix(v) # {}
    THEN [v EXCEPT !.items = [i \in 1..Len(v.items) |->
                                IF i = Least(NeedsFix(v)) THEN FixAttendee(v.items[i], i)
                                ELSE v.items[i]]]
    ELSE v
\* if 'attendees' in event and isinstance(event['attendees'], list): every
\* element fixed in place
FixAttendees(v) ==
    IF v.present /\ v.list
    THEN [v EXCEPT !.items = [i \in 1..Len(v.items) |-> FixAttendee(v.items[i], i)]]
    ELSE v

\* no event being normalised
InitNorm ==
    /\ npc = "done"
    /\ event_data = EmptyEvent
    /\ scheduler_config = DefaultSchedulerConfig
    /\ normalized = NoOutcome
    /\ attendees = NoAttendees
    /\ passes = 0

\* what the normalisation of an event leaves alone
nonNormVars == <<sessVars, pipeVars, mainVars, fileVars, textVars, poolVars, roundVars, delVars, dayVars>>

\* the loop body of process_calendar_event_files up to insert_event
NormalizeEvent ==
    /\ npc = "input"
    /\ normalized' = NormalizedEvent(event_data, scheduler_config)
    /\ npc' = "normalized"
    /\ UNCHANGED <<event_data, scheduler_config, attendees, passes>>
    /\ UNCHANGED nonNormVars

\* valid, completed_data, error = validate_and_complete_event(event_data)
ValidateAndComplete ==
    /\ npc = "input"
    /\ normalized' = ValidateAndCompleteEvent(event_data)
    /\ npc' = "completed"
    /\ UNCHANGED <<event_data, scheduler_config, attendees, passes>>
    /\ UNCHANGED nonNormVars

\* the attendee loop run over event['attendees'], once and once more
NormalizeAttendees ==
    /\ npc = "attendees"
    /\ passes < 2
    /\ attendees' = FixAttendees(attendees)
    /\ passes' = passes + 1
    /\ UNCHANGED <<npc, event_data, scheduler_config, normalized>>
    /\ UNCHANGED nonNormVars


\* ------------------------------------------------- the connection pool

\* the two threads of control of the scheduler: the main loop and the
\* future_tasks_scheduler thread
Loops == {"main", "summary"}

Operations == {"create_tables", "save", "query_range", "query_interval", "update", "delete"}

\* the store operations a loop calls: save_calendar_event per event, and
\* get_calendar_events_by_config_interval for the summary
TaskOps(t) == IF t = "main" THEN {"save"} ELSE {"query_interval"}

\* how an operation leaves its try block once it holds a connection
Exits(o) == {"committed", "exception"} \cup (IF o = "update" THEN {"no_fields"} ELSE {})

\* return_connection(conn): put back into the pool connection_pool names now,
\* if it names one; putconn raises for a connection of another pool
ReturnConnection(ps, cp, t, c) ==
    IF cp # 0 /\ cp = c /\ ~ps[c].closed
    THEN [ps EXCEPT ![c].used = @ \ {t}]
    ELSE ps

\* finally: if conn: return_connection(conn), on every way out of the try block
AfterOperation(ps, cp, t, c, exit) == ReturnConnection(ps, cp, t, c)

\* no pool yet, both loops between tasks
InitPool ==
    /\ connection_pool = 0
    /\ pools = [p \in 1..MaxPools |-> [closed |-> FALSE, used |-> {}]]
    /\ pools_created = 0
    /\ lpc = [t \in Loops |-> "asleep"]
    /\ held = [t \in Loops |-> 0]
    /\ op = [t \in Loops |-> "none"]
    /\ lastExit = [t \in Loops |-> "none"]
    /\ lost = [t \in Loops |-> FALSE]
    /\ tasks = [t \in Loops |-> 0]
    /\ nops = [t \in Loops |-> 0]

\* what a step of a loop on the pool leaves alone
nonPoolVars == <<sessVars, pipeVars, mainVars, fileVars, textVars, normVars, roundVars, delVars, dayVars>>

\* a stage of the pipeline, or the summary task, begins
StartTask(t) ==
    /\ lpc[t] = "asleep"
    /\ tasks[t] < MaxTasks
    /\ tasks' = [tasks EXCEPT ![t] = @ + 1]
    /\ nops' = [nops EXCEPT ![t] = 0]
    /\ lpc' = [lpc EXCEPT ![t] = "initialize"]
    /\ UNCHANGED <<connection_pool, pools, pools_created, held, op, lastExit, lost>>
    /\ UNCHANGED nonPoolVars

\* initialize_db(): connection_pool = SimpleConnectionPool(...), then
\* create_tables(); the constructor may raise, which is caught
InitializeDb(t) ==
    /\ lpc[t] = "initialize"
    /\ \/ /\ pools_created < MaxPools
          /\ pools_created' = pools_created + 1
          /\ connection_pool' = pools_created + 1
          /\ op' = [op EXCEPT ![t] = "create_tables"]
          /\ lpc' = [lpc EXCEPT ![t] = "acquire"]
       \/ /\ lpc' = [lpc EXCEPT ![t] = "next"]
          /\ UNCHANGED <<connection_pool, pools_created, op>>
    /\ UNCHANGED <<pools, held, lastExit, lost, tasks, nops>>
    /\ UNCHANGED nonPoolVars

\* a store operation is called
StartOp(t, o) ==
    /\ lpc[t] = "next"
    /\ nops[t] < MaxOps
    /\ nops' = [nops EXCEPT ![t] = @ + 1]
    /\ op' = [op EXCEPT ![t] = o]
    /\ lpc' = [lpc EXCEPT ![t] = "acquire"]
    /\ UNCHANGED <<connection_pool, pools, pools_created, held, lastExit, lost, tasks>>
    /\ UNCHANGED nonPoolVars

\* conn = get_connection(): initialize_db() first when connection_pool is
\* None, then connection_pool.getconn()
Acquire(t) ==
    /\ lpc[t] = "acquire"
    /\ \/ \* the config file of the interval query is not found: return []
          /\ op[t] = "query_interval"
          /\ lastExit' = [lastExit EXCEPT ![t] = "no_config"]
          /\ lpc' = [lpc EXCEPT ![t] = "next"]
          /\ UNCHANGED <<connection_pool, pools, pools_created, held>>
       \/ /\ connection_pool # 0
          /\ pools' = [pools EXCEPT ![connection_pool].used = @ \cup {t}]
          /\ held' = [held EXCEPT ![t] = connection_pool]
          /\ lpc' = [lpc EXCEPT ![t] = "execute"]
          /\ UNCHANGED <<connection_pool, pools_created, lastExit>>
       \/ \* a new pool is made and its tables created, then getconn()
          /\ connection_pool = 0
          /\ pools_created < MaxPools
          /\ pools_created' = pools_created + 1
          /\ connection_pool' = pools_created + 1
          /\ pools' = [pools EXCEPT ![pools_created + 1].used = @ \cup {t}]
          /\ held' = [held EXCEPT ![t] = pools_created + 1]
          /\ lpc' = [lpc EXCEPT ![t] = "execute"]
          /\ UNCHANGED lastExit
       \/ \* initialize_db() fails and None.getconn() raises: conn stays None
          /\ connection_pool = 0
          /\ lastExit' = [lastExit EXCEPT ![t] = "acquire_failed"]
          /\ lpc' = [lpc EXCEPT ![t] = "next"]
          /\ UNCHANGED <<connection_pool, pools, pools_created, held>>
    /\ UNCHANGED <<op, lost, tasks, nops>>
    /\ UNCHANGED nonPoolVars

\* cursor, execute, commit: the operation commits, raises, or (update with
\* no fields) returns early; on a connection that was closed it raises
Execute(t) ==
    /\ lpc[t] = "execute"
    /\ \E exit \in Exits(op[t]) :
        /\ pools[held[t]].closed => exit = "exception"
        /\ lastExit' = [lastExit EXCEPT ![t] = exit]
    /\ lpc' = [lpc EXCEPT ![t] = "release"]
    /\ UNCHANGED <<connection_pool, pools, pools_created, held, op, lost, tasks, nops>>
    /\ UNCHANGED nonPoolVars

\* the finally clause of the operation
Release(t) ==
    /\ lpc[t] = "release"
    /\ pools' = AfterOperation(pools, connection_pool, t, held[t], lastExit[t])
    /\ lost' = [lost EXCEPT ![t] = t \in pools'[held[t]].used]
    /\ held' = [held EXCEPT ![t] = 0]
    /\ lpc' = [lpc EXCEPT ![t] = "next"]
    /\ UNCHANGED <<connection_pool, pools_created, op, lastExit, tasks, nops>>
    /\ UNCHANGED nonPoolVars

\* close_all_connections(): closeall() on the pool, connection_pool = None
CloseAll(t) ==
    /\ lpc[t] = "next"
    /\ IF connection_pool # 0
       THEN /\ pools' = [pools EXCEPT ![connection_pool].closed = TRUE]
            /\ connection_pool' = 0
       ELSE UNCHANGED <<pools, connection_pool>>
    /\ lpc' = [lpc EXCEPT ![t] = "asleep"]
    /\ UNCHANGED <<pools_created, held, op, lastExit, lost, tasks, nops>>
    /\ UNCHANGED nonPoolVars

\* the returns of run_calendar_summary_task that come before its
\* close_all_connections(): no events, no email config file, no 'email'
\* section, an exception while the email config is updated
EarlyReturns == {"no_events", "no_email_config", "no_email_section", "email_config_error"}

\* run_calendar_summary_task returns False on one of these paths, after
\* get_calendar_events_by_config_interval has returned
ReturnEarly(t) ==
    /\ t = "summary"
    /\ lpc[t] = "next"
    /\ nops[t] > 0
    /\ \E r \in EarlyReturns : lastExit' = [lastExit EXCEPT ![t] = r]
    /\ lpc' = [lpc EXCEPT ![t] = "asleep"]
    /\ UNCHANGED <<connection_pool, pools, pools_created, held, op, lost, tasks, nops>>
    /\ UNCHANGED nonPoolVars

\* --------------------------------------------- save and query by range

\* a date string held in a text column
DateText(d) == [form |-> "date", day |-> d, hour |-> 0, tz |-> ""]

\* value.get('dateTime') or value.get('date'), None shown as NoDateTime
DateTimeOrDate(obj) ==
    IF Truthy(obj.dateTime) THEN obj.dateTime
    ELSE IF obj.date # NoDate THEN DateText(obj.date)
    ELSE NoDateTime

\* if 'dateTime' in value: value['dateTime'] elif 'date' in value: value['date']
DateTimeElseDate(obj) ==
    IF obj.dateTime # NoDateTime THEN obj.dateTime
    ELSE IF obj.date # NoDate THEN DateText(obj.date)
    ELSE NoDateTime

Savers == {"save_to_database", "process_calendar_event_files", "write_event_to_db"}

NoRow == [saved |-> FALSE, summary |-> "absent", start |-> NoDateTime, end |-> NoDateTime]

Row(summary, start, end) ==
    [saved |-> TRUE, summary |-> summary, start |-> start, end |-> end]

\* the arguments each caller gives save_calendar_event, NoRow when it does
\* not call it
RowOf(fn, ev) ==
    CASE fn = "save_to_database" ->
            IF ev.summary = "absent" \/ DateTimeOrDate(ev.start) = NoDateTime THEN NoRow
            ELSE Row(ev.summary, DateTimeOrDate(ev.start),
                     IF DateTimeOrDate(ev.end) # NoDateTime THEN DateTimeOrDate(ev.end)
                     ELSE DateTimeOrDate(ev.start))
      [] fn = "process_calendar_event_files" ->
            Row(ev.summary, DateTimeElseDate(ev.start), DateTimeElseDate(ev.end))
      [] OTHER ->
            Row(ev.summary, ev.start.dateTime, ev.end.dateTime)

\* the place of a string in the order of the text column: the empty string,
\* then per day the bare date and the hours of that day, then the strings
\* that are not zero-padded, then words
TextRank(v) ==
    CASE v.form = "blank" -> 0
      [] v.form = "date" -> v.day * (HoursPerDay + 2)
      [] v.form = "iso" -> v.day * (HoursPerDay + 2) + v.hour + 1
      [] v.form \in {"loose", "nohour"} ->
            (MaxDay + 2 + v.day) * (HoursPerDay + 2) + v.hour + 1
      [] OTHER -> (2 * MaxDay + 4) * (HoursPerDay + 2)

\* the bounds a caller gives: bare dates, or dates expanded to T00:00:00 and
\* T23:59:59 as the configured interval is
DateRanges ==
    [from : 1..MaxDay, to : 1..(MaxDay + 1), expanded : BOOLEAN]

LowerRank(r) == r.from * (HoursPerDay + 2) + (IF r.expanded THEN 1 ELSE 0)
UpperRank(r) == r.to * (HoursPerDay + 2) + (IF r.expanded THEN HoursPerDay + 1 ELSE 0)

\* WHERE start_dateTime >= %s AND start_dateTime <= %s
SelectByRange(rows, r) ==
    {w \in rows : /\ w.start # NoDateTime
                  /\ LowerRank(r) <= TextRank(w.start)
                  /\ TextRank(w.start) <= UpperRank(r)}

\* nothing saved, nothing queried
InitRound ==
    /\ rpc = "done"
    /\ saver = "save_to_database"
    /\ table = {}
    /\ date_range = [from |-> 1, to |-> 1, expanded |-> FALSE]
    /\ results = {}

\* what a save or a query leaves alone
nonRoundVars == <<sessVars, pipeVars, mainVars, fileVars, textVars, normVars, poolVars, delVars, dayVars>>

\* the caller extracts the fields and save_calendar_event inserts the row,
\* or fails and inserts nothing
SaveEvent ==
    /\ rpc = "input"
    /\ \E ok \in BOOLEAN :
          table' = IF ok /\ RowOf(saver, event_data).saved
                   THEN {RowOf(saver, event_data)} ELSE {}
    /\ rpc' = "saved"
    /\ UNCHANGED <<saver, date_range, results>>
    /\ UNCHANGED nonRoundVars

\* results = get_events_by_date_range(start_date, end_date)
QueryByRange ==
    /\ rpc = "saved"
    /\ results' = SelectByRange(table, date_range)
    /\ rpc' = "queried"
    /\ UNCHANGED <<saver, table, date_range>>
    /\ UNCHANGED nonRoundVars

\* ------------------------------------------------------- specifications

\* main at rest in continuous mode
InitMainAtRest ==
    /\ runs_per_day = 1
    /\ interval = CalculateIntervalSeconds(runs_per_day)
    /\ sleeps = 0

\* ------------------------------------ delete_files: the audio directory

\* a file suffix or a configured extension: its leading dot and the rest
Extension(dot, name) == [dot |-> dot, name |-> name]

\* Path.suffix of a file name without a dot
NoSuffix == Extension(FALSE, "")

\* the suffixes of the files the audio directory holds
Suffixes ==
    {Extension(TRUE, "mp3"), Extension(TRUE, "MP3"), Extension(TRUE, "txt"),
     Extension(TRUE, "jpg"), NoSuffix}

\* the entries of audio_file_types.include: with and without the leading dot
AudioEntries == {Extension(TRUE, "mp3"), Extension(FALSE, "mp3"), Extension(TRUE, "MP3")}

\* the entries of image_file_types.include (video_file_types is read the same way)
ImageEntries == {Extension(TRUE, "jpg")}

\* a section of the config: absent, or with its include list
FileTypes(entries) ==
    {s \in [present : BOOLEAN, include : SUBSET entries] : ~s.present => s.include = {}}

\* the Google Drive configs: a file load_gdrive_config reads, or one it raises on
GdriveConfigs ==
    [loads : BOOLEAN, audio_file_types : FileTypes(AudioEntries),
     image_file_types : FileTypes(ImageEntries)]

\* str.lower()
Lower(name) == IF name = "MP3" THEN "mp3" ELSE name

\* f.suffix.lower()
LowerSuffix(f) == [f EXCEPT !.name = Lower(@)]

\* ext if ext.startswith('.') else f'.{ext}'
WithDot(ext) == [ext EXCEPT !.dot = TRUE]

\* gdrive_config.get(section, {}).get('include', [])
Include(section) == IF section.present THEN section.include ELSE {}

\* get_supported_extensions: the include lists, each entry with its dot
GetSupportedExtensions(g) ==
    {WithDot(e) : e \in Include(g.audio_file_types) \cup Include(g.image_file_types)}

\* [ext for ext in extensions if ext in gdrive_config...audio_file_types...include]
AudioExtensions(exts, g) == {e \in exts : e \in Include(g.audio_file_types)}

\* all_files if not extensions else [f for f in all_files if f.suffix.lower() in extensions]
FilesToDelete(files, exts) ==
    IF exts = {} THEN files ELSE {f \in files : LowerSuffix(f) \in exts}

InitDel ==
    /\ dpc = "done"
    /\ delete_source_files = FALSE
    /\ gdrive_config = [loads |-> TRUE,
                        audio_file_types |-> [present |-> FALSE, include |-> {}],
                        image_file_types |-> [present |-> FALSE, include |-> {}]]
    /\ extensions = {}
    /\ audio_files_dir = {}
    /\ unlinked = {}

nonDelVars == <<sessVars, pipeVars, mainVars, fileVars, textVars, normVars, poolVars, roundVars, dayVars>>

\* delete_enabled = config.get('processing', {}).get('delete_source_files', False)
CheckDeleteEnabled ==
    /\ dpc = "start"
    /\ dpc' = IF delete_source_files THEN "load" ELSE "done"
    /\ UNCHANGED <<delete_source_files, gdrive_config, extensions, audio_files_dir, unlinked>>
    /\ UNCHANGED nonDelVars

\* load_gdrive_config and get_supported_extensions, or extensions = [] when
\* the config does not load
LoadExtensions ==
    /\ dpc = "load"
    /\ extensions' = IF gdrive_config.loads THEN GetSupportedExtensions(gdrive_config)
                     ELSE {}
    /\ dpc' = "audio"
    /\ UNCHANGED <<delete_source_files, gdrive_config, audio_files_dir, unlinked>>
    /\ UNCHANGED nonDelVars

\* delete_files_in_directory(audio_dir, audio_extensions, logger): every
\* matching file is unlinked, those apart whose unlink raises
DeleteAudioFiles ==
    /\ dpc = "audio"
    /\ LET files_to_delete ==
               FilesToDelete(audio_files_dir, AudioExtensions(extensions, gdrive_config))
       IN \E failed \in SUBSET files_to_delete :
            /\ unlinked' = files_to_delete \ failed
            /\ audio_files_dir' = audio_files_dir \ unlinked'
    /\ dpc' = "done"
    /\ UNCHANGED <<delete_source_files, gdrive_config, extensions>>
    /\ UNCHANGED nonDelVars

\* ------------------------------------ future_tasks_scheduler: the daily task

SecondsPerHour == 3600
SecondsPerMinute == 60
MinutesPerHour == 60
\* a key that the scheduler section does not hold
NotConfigured == -1
\* scheduler_config.get("daily_task_hour", 23)
DefaultDailyTaskHour == 23
\* scheduler_config.get("daily_task_minute", 55)
DefaultDailyTaskMinute == 55

\* the values of the two keys: absent, or a time of day
ConfiguredHours == {NotConfigured} \cup (0..(HoursPerDay - 1))
ConfiguredMinutes == {NotConfigured} \cup (0..(MinutesPerHour - 1))

\* dict.get(key, default)
GetOr(v, default) == IF v = NotConfigured THEN default ELSE v

\* now.replace(hour=hour, minute=minute, second=0, microsecond=0), in
\* seconds since today's midnight
TargetToday(h, m) ==
    GetOr(h, DefaultDailyTaskHour) * SecondsPerHour
        + GetOr(m, DefaultDailyTaskMinute) * SecondsPerMinute

CalculateSecondsStrictlyPast(t, h, m) ==
    IF t > TargetToday(h, m)
    THEN TargetToday(h, m) + SecondsPerDay - t
    ELSE TargetToday(h, m) - t
\* calculate_seconds_until_daily_task at the time of day t: if now >=
\* target_today the target moves by timedelta(days=1); (target - now).total_seconds()
CalculateSecondsUntilDailyTask(t, h, m) ==
    IF t >= TargetToday(h, m)
    THEN TargetToday(h, m) + SecondsPerDay - t
    ELSE TargetToday(h, m) - t

\* the times of day the scheduler thread is started at
StartTimes ==
    {0, 12 * SecondsPerHour, 23 * SecondsPerHour + 55 * SecondsPerMinute,
     23 * SecondsPerHour + 56 * SecondsPerMinute, SecondsPerDay - 1}

\* the seconds one run_calendar_summary_task takes
TaskDurations == {0, 1, 90}

\* what run_calendar_summary_task returns: True, or False with no events or
\* after a failure
TaskOutcomes == {"sent", "no_events", "failed"}

InitDay ==
    /\ spc = "exited"
    /\ clock = 0
    /\ daily_task_hour = NotConfigured
    /\ daily_task_minute = NotConfigured
    /\ sleep_time = 0
    /\ last_outcome = "none"

nonDayVars ==
    <<sessVars, pipeVars, mainVars, fileVars, textVars, normVars, poolVars, roundVars,
      delVars>>

\* sleep_time = calculate_seconds_until_daily_task(), the config read
ComputeSleepTime ==
    /\ spc = "compute"
    /\ sleep_time' = CalculateSecondsUntilDailyTask(clock, daily_task_hour, daily_task_minute)
    /\ spc' = "sleep"
    /\ UNCHANGED <<clock, daily_task_hour, daily_task_minute, last_outcome>>
    /\ UNCHANGED nonDayVars

\* load_config() inside calculate_seconds_until_daily_task finds no file or
\* cannot read it: sys.exit(1), and the SystemExit ends the thread
ConfigUnreadable ==
    /\ spc = "compute"
    /\ spc' = "exited"
    /\ UNCHANGED <<clock, daily_task_hour, daily_task_minute, sleep_time, last_outcome>>
    /\ UNCHANGED nonDayVars

\* time.sleep(sleep_time)
SleepUntilTarget ==
    /\ spc = "sleep"
    /\ clock' = (clock + sleep_time) % SecondsPerDay
    /\ spc' = "run"
    /\ UNCHANGED <<daily_task_hour, daily_task_minute, sleep_time, last_outcome>>
    /\ UNCHANGED nonDayVars

\* success = run_calendar_summary_task(): it returns, whatever happened in it
RunSummaryTask ==
    /\ spc = "run"
    /\ \E outcome \in TaskOutcomes, d \in TaskDurations :
        /\ last_outcome' = outcome
        /\ clock' = (clock + d) % SecondsPerDay
    /\ spc' = "compute"
    /\ UNCHANGED <<daily_task_hour, daily_task_minute, sleep_time>>
    /\ UNCHANGED nonDayVars

Init ==
    /\ InitSession /\ InitPipeline /\ InitMainAtRest /\ InitFiles /\ InitText
    /\ InitNorm /\ InitPool /\ InitRound
    /\ InitDel
    /\ InitDay

Next == NextSession

\* the session lifecycle, the orchestrator at rest
Spec == Init /\ [][Next]_vars

\* the polling loop keeps polling: time.sleep(1), then runs.retrieve again
FairSpec == Spec /\ WF_vars(PollStatus)

\* the orchestrator, with no session call in progress
InitPipelineSpec ==
    /\ InitSession
    /\ config.assistant_id = NoId /\ config.thread_id = NoId
    /\ config.thread_retention_days = 0
    /\ InitPipeline
    /\ InitMain
    /\ InitFiles
    /\ InitText
    /\ InitNorm
    /\ InitPool
    /\ InitRound
    /\ InitDel
    /\ InitDay

PipelineSpec == InitPipelineSpec /\ [][NextPipeline]_vars

\* the parse, insertion and deletion stages over the files, cycle after cycle
InitFilesSpec ==
    /\ InitSession
    /\ config.assistant_id = NoId /\ config.thread_id = NoId
    /\ config.thread_retention_days = 0
    /\ InitPipeline
    /\ InitMainAtRest
    /\ InitText
    /\ InitNorm
    /\ InitPool
    /\ InitRound
    /\ InitDel
    /\ InitDay
    /\ InitFilesWith(DefaultValidation)

FilesSpec == InitFilesSpec /\ [][NextFiles]_vars

\* the parse stage alone: parse_calendar_entries over the transcripts of one cycle
InitParseSpec ==
    /\ InitSession
    /\ config.assistant_id = NoId /\ config.thread_id = NoId
    /\ config.thread_retention_days = 0
    /\ InitPipeline
    /\ InitMainAtRest
    /\ InitText
    /\ InitNorm
    /\ InitPool
    /\ InitRound
    /\ InitDel
    /\ InitDay
    /\ fpc = "parse"
    /\ fcycle = 1
    /\ stamp = 1
    /\ transcripts \in SUBSET (1..MaxTranscripts)
    /\ todoT = transcripts
    /\ jsonDir = [n \in 1..MaxStamp |-> NoFile]
    /\ todoJ = {}
    /\ archived = {}
    /\ calendar = [e \in EventIds |-> 0]
    /\ store = [e \in EventIds |-> 0]
    /\ icfg = DefaultConfig
    /\ success_count = 0
    /\ error_count = 0
    /\ cur = 0
    /\ idx = 0
    /\ file_success_count = 0
    /\ insertCalls = 0
    /\ lastT = NoParse
    /\ lastArchive = "none"
    /\ parse_count = 0
    /\ failedNames = {}
    /\ parseFailures = {}

NextParse ==
    \/ \E t \in 1..MaxTranscripts : ParseSkips(t)
    \/ \E t \in 1..MaxTranscripts : ParseFails(t)
    \/ \E t \in 1..MaxTranscripts : ParseSaves(t)
    \/ StartInsert

ParseSpec == InitParseSpec /\ [][NextParse]_vars

\* a file other than the first: one event with summary and start dateTime
CompleteEventFile(n) ==
    [kind |-> "single",
     events |-> <<EventOf(((n - 1) % MaxTranscripts) + 1, 1,
                          [dict |-> TRUE, summary |-> "text", start |-> "dateTime"])>>]

\* the insertion stage alone: process_calendar_event_files over a directory
\* whose first file holds events of any shape, under any settings
InitInsertSpec ==
    /\ InitSession
    /\ config.assistant_id = NoId /\ config.thread_id = NoId
    /\ config.thread_retention_days = 0
    /\ InitPipeline
    /\ InitMainAtRest
    /\ InitText
    /\ InitNorm
    /\ InitPool
    /\ InitRound
    /\ InitDel
    /\ InitDay
    /\ fpc = "insert"
    /\ fcycle = 1
    /\ stamp = 1
    /\ transcripts = 1..MaxTranscripts
    /\ todoT = {}
    /\ \E first \in EventFiles(1, EventShapes) \cup {Malformed},
          others \in SUBSET (2..MaxStamp) :
            jsonDir = [n \in 1..MaxStamp |->
                        IF n = 1 THEN first
                        ELSE IF n \in others THEN CompleteEventFile(n)
                        ELSE NoFile]
    /\ todoJ = {n \in 1..MaxStamp : jsonDir[n] # NoFile}
    /\ archived = {}
    /\ calendar = [e \in EventIds |-> 0]
    /\ store = [e \in EventIds |-> 0]
    /\ icfg \in InsertConfigs
    /\ success_count = 0
    /\ error_count = 0
    /\ cur = 0
    /\ idx = 0
    /\ file_success_count = 0
    /\ insertCalls = 0
    /\ lastT = NoParse
    /\ lastArchive = "none"
    /\ parse_count = 0
    /\ failedNames = {}
    /\ parseFailures = {}

NextInsert ==
    \/ \E n \in 1..MaxStamp : OpenFile(n)
    \/ \E n \in 1..MaxStamp : ReadFails(n)
    \/ ProcessEvent
    \/ ArchiveStep
    \/ FinishInsert

InsertSpec == InitInsertSpec /\ [][NextInsert]_vars

\* extract_json_from_text alone, called with any text
InitTextSpec ==
    /\ InitSession
    /\ config.assistant_id = NoId /\ config.thread_id = NoId
    /\ config.thread_retention_days = 0
    /\ InitPipeline
    /\ runs_per_day = 1
    /\ interval = CalculateIntervalSeconds(runs_per_day)
    /\ sleeps = 0
    /\ InitFiles
    /\ InitNorm
    /\ InitPool
    /\ InitRound
    /\ InitDel
    /\ InitDay
    /\ tpc = "input"
    /\ json_data \in Texts
    /\ extracted = NoValue
    /\ written = FALSE

NextText == ExtractJson \/ WriteJson

TextSpec == InitTextSpec /\ [][NextText]_vars

\* the normalisation of one event, of any shape and under any settings
InitNormalizeSpec ==
    /\ InitSession
    /\ config.assistant_id = NoId /\ config.thread_id = NoId
    /\ config.thread_retention_days = 0
    /\ InitPipeline
    /\ InitMainAtRest
    /\ InitFiles
    /\ InitText
    /\ InitPool
    /\ InitRound
    /\ InitDel
    /\ InitDay
    /\ npc = "input"
    /\ event_data \in Events
    /\ scheduler_config \in SchedulerConfigs
    /\ normalized = NoOutcome
    /\ attendees = NoAttendees
    /\ passes = 0

NextNormalize == NormalizeEvent \/ ValidateAndComplete

NormalizeSpec == InitNormalizeSpec /\ [][NextNormalize]_vars

\* the attendee loop alone, over any list
InitAttendeeSpec ==
    /\ InitSession
    /\ config.assistant_id = NoId /\ config.thread_id = NoId
    /\ config.thread_retention_days = 0
    /\ InitPipeline
    /\ InitMainAtRest
    /\ InitFiles
    /\ InitText
    /\ InitPool
    /\ InitRound
    /\ InitDel
    /\ InitDay
    /\ npc = "attendees"
    /\ event_data = EmptyEvent
    /\ scheduler_config = DefaultSchedulerConfig
    /\ normalized = NoOutcome
    /\ attendees \in AttendeeValues
    /\ passes = 0

NextAttendee == NormalizeAttendees

AttendeeSpec == InitAttendeeSpec /\ [][NextAttendee]_vars

\* the main loop and the summary loop on the one pool
InitPoolSpec ==
    /\ InitSession
    /\ config.assistant_id = NoId /\ config.thread_id = NoId
    /\ config.thread_retention_days = 0
    /\ InitPipeline
    /\ InitMainAtRest
    /\ InitFiles
    /\ InitText
    /\ InitNorm
    /\ InitPool
    /\ InitRound
    /\ InitDel
    /\ InitDay

NextPool ==
    \E t \in Loops :
        \/ StartTask(t)
        \/ InitializeDb(t)
        \/ \E o \in TaskOps(t) : StartOp(t, o)
        \/ Acquire(t)
        \/ Execute(t)
        \/ Release(t)
        \/ CloseAll(t)
        \/ ReturnEarly(t)

PoolSpec == InitPoolSpec /\ [][NextPool]_vars

\* the store operations called from one loop while the other sleeps
NextStore ==
    \/ StartTask("main")
    \/ InitializeDb("main")
    \/ \E o \in Operations : StartOp("main", o)
    \/ Acquire("main")
    \/ Execute("main")
    \/ Release("main")
    \/ CloseAll("main")

StoreSpec == InitPoolSpec /\ [][NextStore]_vars

\* an event with summary and start, handed to the store by any of its
\* callers and queried back over any range
InitRoundTripSpec ==
    /\ InitSession
    /\ config.assistant_id = NoId /\ config.thread_id = NoId
    /\ config.thread_retention_days = 0
    /\ InitPipeline
    /\ InitMainAtRest
    /\ InitFiles
    /\ InitText
    /\ InitPool
    /\ npc = "done"
    /\ event_data \in {ev \in Events : /\ ev.summary = "text"
                                       /\ ev.start.dict /\ ev.end \in {NoObject} \cup {e \in Ends : e.dict}
                                       /\ HasValid(ev.start, {"dateTime", "date"})}
    /\ scheduler_config = DefaultSchedulerConfig
    /\ normalized = NoOutcome
    /\ attendees = NoAttendees
    /\ passes = 0
    /\ rpc = "input"
    /\ saver \in Savers
    /\ table = {}
    /\ date_range \in {r \in DateRanges : r.from <= r.to}
    /\ results = {}
    /\ InitDel
    /\ InitDay

NextRoundTrip == SaveEvent \/ QueryByRange

RoundTripSpec == InitRoundTripSpec /\ [][NextRoundTrip]_vars

\* ------------------------------------------------------------ properties

TerminalStatuses == {"completed", "failed", "cancelled", "expired"}
SentStages == {"create_run", "poll", "list_messages", "returned"}

\* the user messages the current top-level call appended to thread t
SentTo(t) == {i \in 1..Len(threads[t].msgs) :
                threads[t].msgs[i].role = "user" /\ threads[t].msgs[i].of = "this"}

\* C1: in one top-level call the stored assistant id is cleared and the call
\* restarted at most once; a second "No assistant found" is an error.
C1_AtMostOneRestart == restarts <= 1

\* C2 as claimed: a call that ends with an error because the run ended
\* failed, cancelled or expired leaves the persisted record as it was when the
\* call started.
C2_RecordAsAtStart ==
    (pc = "error" /\ run_status \in {"failed", "cancelled", "expired"})
        => config = config0

\* C2 as amended: a call that ends with an error and that, before the failing
\* step, created no assistant and no thread and met no "not found" signal
\* leaves the persisted record as it was when the call started: the failing
\* step itself writes nothing.
C2_ErrorStepWritesNothing ==
    (pc = "error" /\ createdA = 0 /\ createdT = 0 /\ restarts = 0
        /\ threadPath # "notfound")
        => config = config0

C2_Witness ==
    /\ pc = "error"
    /\ run_status = "failed"
    /\ createdA = 0 /\ createdT = 0 /\ restarts = 0
    /\ threadPath = "reused"
    /\ config0.assistant_id # NoId
    /\ config = config0

\* C3: "No assistant found" at assistant retrieval removes assistant_id and
\* leaves thread_id and thread_created_at; "No thread found" at thread
\* retrieval removes thread_id with thread_created_at and leaves assistant_id.
C3_ClearsExactlyThatId ==
    [][ /\ (pc = "retrieve_assistant" /\ pc' = "create_assistant")
            => /\ config'.assistant_id = NoId
               /\ config'.thread_id = config.thread_id
               /\ config'.thread_created_at = config.thread_created_at
        /\ (pc = "retrieve_thread" /\ threadPath' = "notfound")
            => /\ config'.thread_id = NoId
               /\ config'.thread_created_at = NoTime
               /\ config'.assistant_id = config.assistant_id ]_vars

C3_Witness ==
    /\ pc = "create_assistant"
    /\ restarts = 1
    /\ \A t \in DOMAIN threads : SentTo(t) = {}
    /\ config0.assistant_id # NoId
    /\ config.assistant_id = NoId
    /\ config.thread_id # NoId
    /\ config.thread_created_at # NoTime

\* C4: a stored thread older than thread_retention_days is replaced: the call
\* never appends the prompt to it, and once the prompt is sent the thread in
\* use is a new one whose id and creation time are persisted; a thread whose
\* age in whole days is at most the retention is reused.
C4_StaleThreadRotated ==
    /\ stale0 =>
        /\ SentTo(config0.thread_id) = {}
        /\ pc \in SentStages =>
            /\ thread_id # config0.thread_id
            /\ createdT >= 1
            /\ config.thread_id = thread_id
            /\ config.thread_created_at = now
            /\ SentTo(thread_id) # {}
    /\ threadPath = "stale" => stale0
    /\ (threadPath = "reused" /\ createdT = 0) =>
        /\ ~stale0
        /\ thread_id = config0.thread_id
        /\ config.thread_id = config0.thread_id
        /\ config.thread_created_at = config0.thread_created_at

C4_Witness ==
    /\ stale0
    /\ pc = "returned"
    /\ thread_id # config0.thread_id
    /\ config.thread_id = thread_id
    /\ config0.thread_created_at # config.thread_created_at

\* C5: after a call that returns a response, from any initial record, the
\* persisted record has thread_id and thread_created_at set and the thread is
\* not older than thread_retention_days.
C5_ReturnedImpliesFreshThread ==
    pc = "returned" =>
        /\ config.thread_id # NoId
        /\ config.thread_created_at # NoTime
        /\ DaysSince(config.thread_created_at) <= config.thread_retention_days

\* C6: a call that follows a call that returned, and in which the remote
\* reports both stored ids as existing and the thread is not past retention,
\* uses the ids of the previous call, creates nothing and leaves the record.
C6_IdempotentSessionIdentity ==
    (prevRun.ok /\ restarts = 0 /\ threadPath \in {"reused", "stale"} /\ ~stale0) =>
        /\ assistant_id = prevRun.a
        /\ thread_id = prevRun.t
        /\ createdA = 0
        /\ createdT = 0
        /\ pc # "create_thread"
        /\ config = config0

C6_Witness ==
    /\ prevRun.ok
    /\ pc = "returned"
    /\ restarts = 0
    /\ threadPath = "reused"
    /\ ~stale0
    /\ assistant_id = prevRun.a
    /\ thread_id = prevRun.t
    /\ config = config0

\* C7: a response is returned only when the polled run is completed; a run
\* that ends failed, cancelled or expired ends the call with an error and no
\* text, also when the thread holds assistant messages.
C7_OnlyCompletedYieldsResponse ==
    /\ pc = "returned" => (run_status = "completed" /\ result # NoMsg)
    /\ run_status \in {"failed", "cancelled", "expired"} =>
            (pc = "error" /\ result = NoMsg)

C7_Witness ==
    /\ pc = "error"
    /\ run_status = "cancelled"
    /\ result = NoMsg
    /\ LatestAssistant(threads[thread_id].msgs) # NoMsg

\* C8: while runs.retrieve answers with a status, the polling loop goes on
\* exactly as long as the status is none of completed, failed, cancelled,
\* expired; the call goes on to read the response, or returns, only from a
\* terminal status (no timeout, no other exit); and once the remote run is
\* terminal the loop is eventually left.
C8_PollingLoopExit ==
    /\ [][ /\ (pc = "poll" /\ remote_run' = remote_run /\ run_status' = remote_run)
               => ((pc' = "poll") <=> (remote_run \notin TerminalStatuses))
           /\ (pc = "poll" /\ pc' \in {"list_messages", "returned"})
               => remote_run \in TerminalStatuses ]_vars
    /\ ((pc = "poll" /\ remote_run \in TerminalStatuses) ~> (pc # "poll"))

C8_Witness ==
    /\ pc = "error"
    /\ run_status = "expired"
    /\ remote_run = "expired"

\* C9: after every cycle, however its stages ended, the state file holds the
\* summary of that cycle: its start time and its outcome.
C9_StateFileIsCycleSummary ==
    ppc \in {"done", "exited"} =>
        /\ stateFile.kind = "json"
        /\ stateFile.content.last_run_time = cycleStart
        /\ stateFile.content.last_run_status =
                (IF cycleFailure = "none" THEN "success" ELSE "failed")

\* C10: a cycle that met a cycle-level failure called no further stage and
\* its summary says failed, with the error; it never says success.
C10_CycleFailureRecordedFailed ==
    (ppc = "done" /\ cycleFailure # "none") =>
        /\ state.last_run_status = "failed"
        /\ state.error = cycleFailure
        /\ "delete" \notin stagesRun
        /\ (stateFile.kind = "json" /\ stateFile.content.last_run_time = cycleStart)
                => stateFile.content.last_run_status # "success"

\* C18: with runs_per_day = 0 the interval is 0 and main runs exactly one
\* cycle and returns: it never sleeps and never starts a second cycle.
C18_RunOnceMode ==
    runs_per_day = 0 =>
        /\ interval = 0
        /\ cycle <= 1
        /\ sleeps = 0
        /\ ppc = "finished" => cycle = 1

C18_Witness ==
    /\ runs_per_day = 0
    /\ ppc = "finished"
    /\ cycle = 1
    /\ sleeps = 0

\* C11: an event file with an event that failed validation or insertion is
\* not archived by the insertion stage, and the deletion stage of the cycle
\* leaves it in the output directory for the next cycle, whatever the
\* deletion settings.
C11_FailedFileStays ==
    [][(fpc = "delete" /\ fpc' = "idle") =>
            \A n \in failedNames : n \notin archived /\ jsonDir'[n] = jsonDir[n]
                                                     /\ jsonDir'[n] # NoFile]_vars

\* C12: across the cycles no event is inserted into the calendar more than
\* once: an event that was inserted is never passed to insertion again,
\* whatever the archive and deletion settings and the outcome of the rename.
C12_InsertedOnce ==
    \A e \in EventIds : calendar[e] <= 1

\* C13: within one cycle an event is written to the store only after its
\* calendar insertion succeeded, and at most once.
C13_StoredAfterInsertionOnce ==
    fcycle <= 1 =>
        \A e \in EventIds : store[e] <= 1 /\ (store[e] > 0 => calendar[e] > 0)

\* C13, the second half alone: within one cycle no event is written twice.
C13_StoredTwice ==
    fcycle = 1 /\ \E e \in EventIds : store[e] = 2 /\ calendar[e] = 1

\* C14: a failure while processing one file is confined to that file and
\* counted: when the insertion stage has returned, the error count of the
\* cycle covers every transcript whose extraction failed, the stage having
\* gone on to the remaining files and returned normally.
C14_FailuresCounted ==
    fpc = "delete" => error_count >= Cardinality(parseFailures)

\* C15: when the store write after a successful calendar insertion fails, the
\* insertion stands: the event is counted as created and not as failed by
\* that step, and the archive step of its file is attempted as for any file
\* with an inserted event, moving the file when the rename goes through.
C15_StoreFailureKeepsInsertion ==
    [][/\ (fpc = "insert" /\ cur # 0 /\ idx' = idx + 1
            /\ calendar' # calendar /\ store' = store) =>
            /\ calendar'[jsonDir[cur].events[idx].id] = calendar[jsonDir[cur].events[idx].id] + 1
            /\ success_count' = success_count + 1
            /\ file_success_count' = file_success_count + 1
            /\ error_count' = error_count
       /\ (fpc = "insert" /\ cur # 0 /\ cur' = 0 /\ icfg.archive
            /\ \E i \in 1..Len(jsonDir[cur].events) :
                  calendar[jsonDir[cur].events[i].id] > store[jsonDir[cur].events[i].id]) =>
            /\ lastArchive' \in {"archived", "mkdir_failed", "rename_failed"}
            /\ lastArchive' = "archived" <=> (jsonDir'[cur] = NoFile /\ cur \in archived')
            /\ calendar' = calendar
            /\ success_count' = success_count]_vars

C15_Witness ==
    /\ fpc = "delete"
    /\ calendar[<<1, 1>>] = 1
    /\ store[<<1, 1>>] = 0
    /\ success_count >= 1
    /\ error_count = 0
    /\ 1 \in archived
    /\ jsonDir[1] = NoFile

\* an event (a JSON object) without one of the configured required fields,
\* or whose start holds none of the configured start fields
LacksRequired(ev, cfg) ==
    /\ ev.dict
    /\ \/ "summary" \in cfg.required /\ ev.summary \in {"absent", "empty"}
       \/ "start" \in cfg.required /\ ev.start \in {"absent", "empty"}
       \/ ev.start \notin cfg.startf

\* C16: an event lacking a configured required field, or whose start has
\* none of the configured start fields, is not passed to insert_event, adds
\* exactly one to the error count and nothing to the success count, and the
\* loop moves on: no event and no file is examined a second time in the cycle.
C16_InvalidEventSkippedOnce ==
    [][/\ (fpc = "insert" /\ cur # 0 /\ idx <= Len(jsonDir[cur].events)
            /\ LacksRequired(jsonDir[cur].events[idx], icfg)) =>
            /\ insertCalls' = insertCalls
            /\ calendar' = calendar
            /\ store' = store
            /\ error_count' = error_count + 1
            /\ success_count' = success_count
            /\ idx' = idx + 1
            /\ cur' = cur
       /\ (fpc = "insert" /\ fpc' = "insert") =>
            /\ todoJ' \subseteq todoJ
            /\ (cur = 0 /\ cur' # 0) => (cur' \in todoJ /\ idx' = 1)
            /\ (cur # 0 /\ cur' = 0) => cur \notin todoJ'
            /\ (cur # 0 /\ cur' # 0) => (cur' = cur /\ idx' = idx + 1)]_vars

C16_Witness ==
    /\ fpc = "delete"
    /\ jsonDir[1].kind = "list"
    /\ Len(jsonDir[1].events) = 2
    /\ jsonDir[1].events[1].summary = "absent"
    /\ jsonDir[1].events[2].start = "empty"
    /\ \A n \in 2..MaxStamp : jsonDir[n] = NoFile
    /\ error_count = 2
    /\ insertCalls = 0
    /\ success_count = 0

\* C17: an event file is moved to the archive only when it was processed
\* successfully: no file with an event that failed validation or insertion
\* is archived.
C17_ArchivedOnlyIfNoneFailed ==
    archived \cap failedNames = {}

\* a text of no character other than whitespace
IsBlank(text) == \A i \in 1..Len(text) : text[i] = " "

\* C19: a transcript that is empty or holds only whitespace is skipped: the
\* extraction service is not called for it, no event file is written, nothing
\* is saved to the store, and no success or error count changes.
C19_BlankTranscriptSkipped ==
    [][(fpc = "parse" /\ todoT' # todoT /\ IsBlank(lastT'.content)) =>
            /\ ~lastT'.called
            /\ lastT'.wrote = 0
            /\ ~lastT'.stored
            /\ jsonDir' = jsonDir
            /\ store' = store
            /\ calendar' = calendar
            /\ parse_count' = parse_count
            /\ success_count' = success_count
            /\ error_count' = error_count
            /\ parseFailures' = parseFailures]_vars

C19_Witness ==
    /\ fpc = "parse"
    /\ lastT.outcome = "skipped"
    /\ lastT.content = <<" ">>
    /\ ~lastT.called
    /\ parse_count = 0
    /\ todoT # transcripts

\* the JSON objects a text contains: its stretches that are an object
ObjectsIn(s) ==
    { SubSeq(s, i, j) : i \in 1..Len(s), j \in 1..Len(s) }
        \cap { v \in JsonValues : Head(v) = "{" }

\* C20: for every text that contains a valid JSON object anywhere, prose with
\* other braces or a second object included, extract_json_from_text returns
\* that object.
C20_ContainedObjectReturned ==
    (tpc = "done" /\ ObjectsIn(json_data) # {}) => extracted \in ObjectsIn(json_data)

\* a text with a brace pair: some { with a } behind it
HasBracePair(s) ==
    \E i \in 1..Len(s), j \in 1..Len(s) : i < j /\ s[i] = "{" /\ s[j] = "}"

\* C21: for every text without a brace pair the extraction yields no value,
\* and save_json_output writes no event file and returns (None, None).
C21_NoBracesNoValue ==
    (tpc \in {"done", "saved"} /\ ~HasBracePair(json_data)) =>
        extracted = NoValue /\ ~written

\* the fenced blocks of a text that parse, by their place among the blocks
ParsingBlocks(s) == {i \in 1..Len(FencedBlocks(s)) : FencedBlocks(s)[i] \in JsonValues}

\* C22: the three strategies are applied in a fixed order and the first
\* success wins: the whole text if it parses; otherwise the first fenced
\* block, in order of appearance, that parses; the stretch from the first {
\* to the last } only when no fenced block parsed; no value only when all
\* three failed.
C22_StrategyOrder ==
    tpc = "done" =>
        /\ json_data \in JsonValues => extracted = json_data
        /\ (json_data \notin JsonValues /\ ParsingBlocks(json_data) # {}) =>
              extracted = FencedBlocks(json_data)[Least(ParsingBlocks(json_data))]
        /\ (json_data \notin JsonValues /\ ParsingBlocks(json_data) = {}) =>
              extracted = (IF GreedyBraces(json_data) \in JsonValues
                           THEN GreedyBraces(json_data) ELSE NoValue)
        /\ extracted = NoValue <=>
              /\ json_data \notin JsonValues
              /\ ParsingBlocks(json_data) = {}
              /\ GreedyBraces(json_data) \notin JsonValues

C22_Witness ==
    /\ tpc = "done"
    /\ json_data = <<"fence", "n", "fence", "{", "k", "}">>
    /\ extracted = <<"n">>

\* the hour count a dateTime string denotes, within its own zone
Instant(dt) == dt.day * HoursPerDay + dt.hour

\* C23: for every event that has a start.dateTime and no end, the end.dateTime
\* that is synthesized denotes an instant strictly after the start and carries
\* the suffix of the start, when midnight is crossed and in the fallback too
C23_EndAfterStart ==
    (/\ npc \in {"normalized", "completed"}
     /\ normalized.status \in {"passed", "valid"}
     /\ event_data.start.dateTime.form \in {"iso", "loose"}
     /\ ~event_data.end.present
     /\ (npc = "normalized" => scheduler_config.add_end_time_if_missing))
    => /\ Instant(normalized.event.end.dateTime) > Instant(event_data.start.dateTime)
       /\ normalized.event.end.dateTime.tz = event_data.start.dateTime.tz

\* an end with a populated dateTime or date
EndPopulated(ev) ==
    ev.end.present /\ ev.end.dict /\ (Truthy(ev.end.dateTime) \/ ev.end.date # NoDate)

C25_EveryAttendeeHasEmail ==
    (passes >= 1 /\ attendees.present /\ attendees.list)
    => \A i \in 1..Len(attendees.items) :
          attendees.items[i].dict => attendees.items[i].email \notin {"absent", ""}

\* C26: the attendee loop is idempotent: run over its own result it changes
\* nothing
C26_AttendeeFixIdempotent == [][passes = 1 => attendees' = attendees]_vars

\* the loop ran twice over a list in which it had filled in two emails, one
\* from a name and one from the position
C26_Witness ==
    /\ passes = 2
    /\ attendees.present /\ attendees.list
    /\ Len(attendees.items) = 2
    /\ attendees.items[1].email = "bob.ray@example.com"
    /\ attendees.items[2].email = "attendee2@example.com"

\* C27: validate_and_complete_event never fails: for every event, the empty
\* one too, it reports valid and returns an event with summary, start and end
C27_AlwaysValidAndComplete ==
    npc = "completed"
    => /\ normalized.status = "valid"
       /\ normalized.event.summary # "absent"
       /\ normalized.event.start.present
       /\ (Truthy(normalized.event.start.dateTime) \/ normalized.event.start.date # NoDate)
       /\ EndPopulated(normalized.event)

\* C28: while a loop holds a connection, the other loop neither closes it nor
\* replaces the pool it came from, and the connection goes back to that pool
C28_NoInterference ==
    \A t \in Loops :
        /\ held[t] # 0 => (connection_pool = held[t] /\ ~pools[held[t]].closed)
        /\ ~lost[t]

\* the connections checked out by a loop, over all pools
CheckedOutBy(t) == {p \in 1..MaxPools : t \in pools[p].used}

\* C29: every store operation puts back the connection it acquired, however
\* it leaves its try block: outside an operation the loop has nothing checked out
C29_ConnectionReturned ==
    \A t \in Loops : lpc[t] \notin {"execute", "release"} => CheckedOutBy(t) = {}

\* the range covers the day the event starts on
CoversStart(r, ev) ==
    LET day == IF ev.start.dateTime.day # 0 THEN ev.start.dateTime.day ELSE ev.start.date
    IN r.from <= day /\ day <= r.to

\* C30: after an event is saved, a query by a range covering its start time
\* returns a record whose summary, start and end equal those of the event,
\* for dateTime events, for all-day events and for events without an end
C30_RoundTrip ==
    (rpc = "queried" /\ table # {} /\ CoversStart(date_range, event_data))
    => \E w \in results :
          /\ w.summary = event_data.summary
          /\ w.start = DateTimeOrDate(event_data.start)
          /\ w.end = DateTimeOrDate(event_data.end)

\* C34: main is in run-once mode if and only if runs_per_day is 0: for every
\* positive runs_per_day the interval is a positive number of seconds and
\* main does not return after its first cycle
C34_RunOnceIffZero ==
    runs_per_day > 0 => (interval > 0 /\ ppc # "finished")

\* C33: the text a call returns is an assistant message that this call's run
\* added to the thread (it comes after this call's user message), never an
\* assistant message left in the thread by an earlier call
C33_ReturnsThisCallsReply ==
    pc = "returned" => (result.role = "assistant" /\ result.of = "this")

\* the user messages this top-level call has appended to a thread
UserMessagesOfThisCall(msgs) ==
    Cardinality({i \in DOMAIN msgs : msgs[i].role = "user" /\ msgs[i].of = "this"})

\* C35: when a top-level call returns, the thread it finally used holds exactly
\* one user message appended by this call, restarts of the self-heal included
C35_OneUserMessagePerCall ==
    pc = "returned" => UserMessagesOfThisCall(threads[thread_id].msgs) = 1

\* C36: an event counts in one counter only: when every event of a file was
\* inserted and counted in success_count, finishing the file (the archive
\* step, with a failing mkdir or rename) adds nothing to error_count
C36_SuccessNeverCountedAsError ==
    [][(/\ fpc = "insert" /\ cur # 0 /\ cur' = 0
        /\ file_success_count > 0
        /\ file_success_count = Len(jsonDir[cur].events))
            => error_count' = error_count]_vars

\* the event files present in the output directory
FilesWritten == {n \in DOMAIN jsonDir : jsonDir[n] # NoFile}

\* C37: during the parse stage of a cycle that started on an empty output
\* directory every successful save_json_output wrote a file of its own: the
\* number of event files equals the success count of the parse stage
C37_OneFilePerSave ==
    (fcycle = 1 /\ fpc = "parse") => Cardinality(FilesWritten) = parse_count

\* process_deletions alone, over any audio directory and any Google Drive config
InitDeleteSpec ==
    /\ InitSession
    /\ config.assistant_id = NoId /\ config.thread_id = NoId
    /\ config.thread_retention_days = 0
    /\ InitPipeline
    /\ InitMainAtRest
    /\ InitFiles
    /\ InitText
    /\ InitNorm
    /\ InitPool
    /\ InitRound
    /\ dpc = "start"
    /\ delete_source_files \in BOOLEAN
    /\ gdrive_config \in GdriveConfigs
    /\ extensions = {}
    /\ audio_files_dir \in SUBSET Suffixes
    /\ unlinked = {}
    /\ InitDay

NextDelete ==
    \/ CheckDeleteEnabled
    \/ LoadExtensions
    \/ DeleteAudioFiles

DeleteSpec == InitDeleteSpec /\ [][NextDelete]_vars

\* the audio extensions of the config, each with its leading dot
ConfiguredAudio ==
    IF gdrive_config.loads
    THEN {WithDot(e) : e \in Include(gdrive_config.audio_file_types)}
    ELSE {}

\* C39: process_deletions removes from the audio directory only files whose
\* suffix is a configured audio extension, whatever the Google Drive config:
\* an empty audio list, entries without the leading dot, a config that does
\* not load
C39_OnlyAudioFilesDeleted ==
    dpc = "done" => \A f \in unlinked : LowerSuffix(f) \in ConfiguredAudio

\* C38: whenever run_calendar_summary_task returns, on whichever path, the
\* connection pool has been closed: connection_pool is None
C38_PoolClosedOnReturn ==
    [][(lpc["summary"] # "asleep" /\ lpc'["summary"] = "asleep")
            => connection_pool' = 0]_vars

\* the scheduler thread alone, started at any of the start times under any
\* configured time of day
InitDailySpec ==
    /\ InitSession
    /\ config.assistant_id = NoId /\ config.thread_id = NoId
    /\ config.thread_retention_days = 0
    /\ InitPipeline
    /\ InitMainAtRest
    /\ InitFiles
    /\ InitText
    /\ InitNorm
    /\ InitPool
    /\ InitRound
    /\ InitDel
    /\ spc = "compute"
    /\ clock \in StartTimes
    /\ daily_task_hour \in ConfiguredHours
    /\ daily_task_minute \in ConfiguredMinutes
    /\ sleep_time = 0
    /\ last_outcome = "none"

NextDaily ==
    \/ ComputeSleepTime
    \/ ConfigUnreadable
    \/ SleepUntilTarget
    \/ RunSummaryTask

DailySpec == InitDailySpec /\ [][NextDaily]_vars

\* the thread is scheduled as long as it has a step to take
DailyFairSpec == DailySpec /\ WF_vars(NextDaily)

\* C31: the wait is more than 0 and at most 86400 seconds and ends at the
\* configured time of day; it runs over midnight exactly when now is at or
\* past today's target
C31_WaitUntilNextOccurrence ==
    spc = "sleep" =>
        /\ sleep_time \in 1..SecondsPerDay
        /\ (clock + sleep_time) % SecondsPerDay
                = TargetToday(daily_task_hour, daily_task_minute)
        /\ (clock + sleep_time >= SecondsPerDay)
                <=> (clock >= TargetToday(daily_task_hour, daily_task_minute))

\* 23:56 with the target 23:55: the wait is a day less a minute
C31_Witness ==
    /\ spc = "sleep"
    /\ clock = 23 * SecondsPerHour + 56 * SecondsPerMinute
    /\ daily_task_hour = 23 /\ daily_task_minute = 55
    /\ sleep_time = SecondsPerDay - SecondsPerMinute

\* C32: the loop runs forever: after every firing, whatever its outcome and
\* whatever the next reading of the configuration gives, the task is fired again
C32_FiresAgain ==
    (spc = "compute" /\ last_outcome # "none") ~> (spc = "run")

====
